---------------------------- MODULE Spec2Model ----------------------------
(***************************************************************************)
(* Model of the FLAKE tool's distance-field transform and grid/symmetry    *)
(* engine (src/src/grid.js, the state store and easings that follow the    *)
(* preset code in src/src/presets.js, and the callers in src/src/main.js   *)
(* and src/src/export.js).                                                 *)
(*                                                                         *)
(* Numbers.  JavaScript numbers are modelled as fixed-point decimals held  *)
(* in integers: a length, ratio, size, time or degree value v is held as   *)
(* v * Scale, an angle in radians and a value of Math.cos / Math.sin as    *)
(* v * TrigScale.  Products and quotients round to the nearest unit.  The  *)
(* two non-finite results the code can produce, NaN (0/0) and Infinity     *)
(* (x/0, x > 0), are the sentinels NaN and Infinity, which the arithmetic  *)
(* operators propagate as IEEE-754 does.                                   *)
(*                                                                         *)
(* Ambient state.  The functions of grid.js and state.js read the exported *)
(* objects of state.js; here each takes them as its first argument st, a   *)
(* record of the objects (st.grid, st.shape, st.pattern, st.animation,     *)
(* st.palette, st.noiseTable), so that a handler can run them on the state *)
(* it has just written.  A colour is the sequence of the characters of its *)
(* string, so that parsing and formatting act on what was written.         *)
(*                                                                         *)
(* Handlers.  A control of the panel is one action: the write of the bound *)
(* field followed by the change handler main.js registered for it, the     *)
(* redraw included.  The specifications exercise the program by parts:     *)
(* SpecGrid (grid controls and JSON import), SpecDistance (direct calls of *)
(* getNormalizedDistance), SpecSize (shape and pattern controls, direct    *)
(* calls of getShapeSize), SpecRotation (rotation controls, direct calls   *)
(* of getShapeRotation), SpecColor and SpecStroke (fill and stroke modes,  *)
(* palettes, direct calls of getFillColor and getStrokeColor), SpecModes   *)
(* (imports of mode values and their exports), SpecRoundTrip and           *)
(* SpecPresets (Export JSON, Load Preset, Save as User Preset),            *)
(* SpecUserPresets (user presets under several names), SpecImport (files   *)
(* that fail to import, Randomize All, Reset to Default), SpecPattern (the *)
(* Intensity slider), SpecRender (animation and export controls, the draw  *)
(* loop and the three export paths), SpecTime (direct calls of             *)
(* getAnimationTime), SpecSequence (sequence exports frame by frame) and   *)
(* SpecStatus (the status line under concurrent exports and file loads,    *)
(* with the fairness of the browser's timers).                             *)
(***************************************************************************)
EXTENDS Integers, Sequences, FiniteSets, TLC

VARIABLES
    grid,        \* state.js `grid`
    shape,       \* state.js `shape`
    pattern,     \* state.js `pattern`
    animation,   \* state.js `animation`
    palette,     \* state.js `palette`
    background,  \* state.js `canvas.background`
    savedJSON,   \* the text of the file the Export JSON button last downloaded
    userPresets, \* presets.js `userPresets`
    loading,     \* the handleFile calls suspended at their await, oldest first
    noiseTable,  \* the permutation table createNoise2D() drew at module load
    cells,       \* the array getGridCells() returned to the last p.draw
    frame,       \* the drawShape calls of the last p.draw, in call order
    drawFailed,  \* the last p.draw ended in an exception
    canvas,      \* state.js `canvas` (width and height)
    exportSettings, \* state.js `exportSettings` (format, scale and status)
    frameCount,  \* main.js `frameCount`
    looping,     \* p5 runs the draw loop (p.loop() was the last of loop/noLoop)
    seqExport,   \* the exportSequence calls suspended at their await, oldest first
    exported,    \* the last export pass made of the current configuration
    statusTimers, \* the pending 2 s timers of exportComposition
    probe        \* the last direct call of a core function in the current configuration

\* the configuration objects
cfgVars == <<grid, shape, pattern, animation, palette, background, exportSettings,
             noiseTable>>

\* presets kept outside the configuration, and files being read
fileVars == <<savedJSON, userPresets, loading>>

\* what the last p.draw left behind
drawVars == <<canvas, cells, frame, drawFailed, frameCount, looping>>

\* what the export code left behind
exportVars == <<seqExport, exported, statusTimers>>

vars == <<cfgVars, fileVars, drawVars, exportVars, probe>>

-----------------------------------------------------------------------------
(* Fixed-point arithmetic *)

\* one unit of length / ratio is 1/Scale
Scale == 10 * 10

\* one unit of angle (radians) and of a sine or cosine is 1/TrigScale
TrigScale == Scale * Scale

\* 0/0 and everything computed from it
NaN == 0 - 2 ^ 30

\* x/0 for x > 0
Infinity == 2 ^ 30

Abs(a) == IF a < 0 THEN 0 - a ELSE a

\* Each arithmetic operator below applies a function to its arguments, so that an
\* argument is evaluated once however often the body reads it.

\* a / b rounded to the nearest integer, b > 0
RDiv(a, b) ==
    [x \in Int, y \in Int |->
        IF x >= 0 THEN (2 * x + y) \div (2 * y)
        ELSE 0 - ((2 * (0 - x) + y) \div (2 * y))][a, b]

\* JavaScript a + b
Add(a, b) == [x \in Int, y \in Int |-> IF x = NaN \/ y = NaN THEN NaN ELSE x + y][a, b]

\* JavaScript a - b
Sub(a, b) == [x \in Int, y \in Int |-> IF x = NaN \/ y = NaN THEN NaN ELSE x - y][a, b]

\* JavaScript a * b on two Scale-valued numbers
Mul(a, b) ==
    [x \in Int, y \in Int |-> IF x = NaN \/ y = NaN THEN NaN ELSE RDiv(x * y, Scale)][a, b]

\* JavaScript a / b on two Scale-valued numbers, b >= 0
Div(a, b) ==
    [x \in Int, y \in Int |->
        IF x = NaN \/ y = NaN THEN NaN
        ELSE IF y = 0
             THEN (IF x = 0 THEN NaN ELSE IF x > 0 THEN Infinity ELSE 0 - Infinity)
             ELSE RDiv(x * Scale, y)][a, b]

\* Math.min(a, b): NaN if either is NaN
MathMin(a, b) ==
    [x \in Int, y \in Int |->
        IF x = NaN \/ y = NaN THEN NaN ELSE IF x < y THEN x ELSE y][a, b]

\* JavaScript a < b: false when either is NaN
Lt(a, b) == [x \in Int, y \in Int |-> x # NaN /\ y # NaN /\ x < y][a, b]

\* the integer square root of n >= 0, a bit at a time
ISqrt[n \in Nat] ==
    IF n < 2 THEN n
    ELSE [s \in Nat |-> IF (s + 1) * (s + 1) <= n THEN s + 1 ELSE s][2 * ISqrt[n \div 4]]

\* Math.sqrt(a) on a Scale-valued number a >= 0
MathSqrt(a) == [x \in Int |-> IF x = NaN THEN NaN ELSE ISqrt[x * Scale]][a]

\* Math.pow(a, 2)
MathPow2(a) == [x \in Int |-> Mul(x, x)][a]

\* Math.PI in TrigScale units
Pi == 31416

\* sin x for 0 <= x <= Pi/2 (TrigScale units in and out), by its Taylor series
SinQ[x \in Int] ==
    [x2 \in Int |->
        [t3 \in Int |->
            [t5 \in Int |->
                [t7 \in Int |-> x - t3 + t5 - t7 + RDiv(t7 * x2, 72 * TrigScale)
                ][RDiv(t5 * x2, 42 * TrigScale)]
            ][RDiv(t3 * x2, 20 * TrigScale)]
        ][RDiv(x * x2, 6 * TrigScale)]
    ][RDiv(x * x, TrigScale)]

\* an angle reduced to (-Pi, Pi]
WrapAngle(a) ==
    [m \in Int |-> IF m > Pi THEN m - 2 * Pi ELSE m][a % (2 * Pi)]

\* Math.sin(a), a in TrigScale units; the result in TrigScale units
MathSin(a) ==
    [w \in Int |->
        IF w < 0
        THEN 0 - SinQ[IF 2 * (0 - w) > Pi THEN Pi + w ELSE 0 - w]
        ELSE SinQ[IF 2 * w > Pi THEN Pi - w ELSE w]][WrapAngle(a)]

\* Math.cos(a), a in TrigScale units; the result in TrigScale units
MathCos(a) ==
    [p \in Int |->
        IF 2 * p > Pi THEN 0 - SinQ[p - (Pi \div 2)] ELSE SinQ[(Pi \div 2) - p]
    ][Abs(WrapAngle(a))]

\* the angle in lo..hi of the first quadrant whose direction is (ax, ay), by bisection
AtanSearch[ay \in Nat, ax \in Nat, lo \in Nat, hi \in Nat] ==
    IF hi - lo <= 1
    THEN (IF Abs(ay * MathCos(lo) - ax * MathSin(lo))
                <= Abs(ay * MathCos(hi) - ax * MathSin(hi))
          THEN lo ELSE hi)
    ELSE IF ay * MathCos((lo + hi) \div 2) >= ax * MathSin((lo + hi) \div 2)
         THEN AtanSearch[ay, ax, (lo + hi) \div 2, hi]
         ELSE AtanSearch[ay, ax, lo, (lo + hi) \div 2]

\* Math.atan2(dy, dx) in TrigScale units; atan2(0, 0) = 0
MathAtan2(dy, dx) ==
    [y \in Int, x \in Int |->
        IF y = 0 THEN (IF x >= 0 THEN 0 ELSE Pi)
        ELSE [q \in Int |->
                 IF y > 0 THEN (IF x >= 0 THEN q ELSE Pi - q)
                 ELSE (IF x >= 0 THEN 0 - q ELSE q - Pi)
             ][IF x = 0 THEN Pi \div 2 ELSE AtanSearch[Abs(y), Abs(x), 0, Pi \div 2]]
    ][dy, dx]

-----------------------------------------------------------------------------
(* Distance field, symmetry expander and cell enumerator (grid.js) *)

\* the objects of state.js as the functions below read them
Store ==
    [grid |-> grid, shape |-> shape, pattern |-> pattern, animation |-> animation,
     palette |-> palette, noiseTable |-> noiseTable]

\* getGridCenter forgetting the offsets
getGridCenterNoOffset(st) ==
    [x |-> RDiv(st.grid.cols * st.grid.cellSize, 2),
     y |-> RDiv(st.grid.rows * st.grid.cellSize, 2)]

\* getGridCenter(): {x, y}
getGridCenter(st) ==
    [x |-> RDiv(st.grid.cols * st.grid.cellSize, 2) + st.grid.offsetX,
     y |-> RDiv(st.grid.rows * st.grid.cellSize, 2) + st.grid.offsetY]

\* getNormalizedDistance normalising by the whole diagonal instead of half of it
getNormalizedDistanceWholeDiagonal(st, x, y) ==
    LET center  == getGridCenter(st)
        maxDist == MathSqrt(Add(MathPow2(st.grid.cols * st.grid.cellSize),
                                MathPow2(st.grid.rows * st.grid.cellSize)))
        dist    == MathSqrt(Add(MathPow2(x - center.x), MathPow2(y - center.y)))
    IN MathMin(Div(dist, maxDist), Scale)

\* getNormalizedDistance(x, y)
getNormalizedDistance(st, x, y) ==
    LET center  == getGridCenter(st)
        maxDist == MathSqrt(Add(MathPow2(RDiv(st.grid.cols * st.grid.cellSize, 2)),
                                MathPow2(RDiv(st.grid.rows * st.grid.cellSize, 2))))
        dist    == MathSqrt(Add(MathPow2(x - center.x), MathPow2(y - center.y)))
    IN MathMin(Div(dist, maxDist), Scale)

\* the radial loop's cell with the step angle computed from PI instead of 2 PI
RadialCopyHalfTurn(i, baseAngle, radius, col, row, dist, center, n) ==
    [angle \in Int |->
        [x |-> center.x + RDiv(MathCos(angle) * radius, TrigScale),
         y |-> center.y + RDiv(MathSin(angle) * radius, TrigScale),
         col |-> col, row |-> row, dist |-> dist, isOriginal |-> FALSE,
         rotation |-> RDiv(360 * i * Scale, n)]
    ][baseAngle + RDiv(Pi * i, n)]

\* the cell pushed by one pass of the radial loop of applySymmetry
RadialCopy(i, baseAngle, radius, col, row, dist, center, n) ==
    [angle \in Int |->
        [x |-> center.x + RDiv(MathCos(angle) * radius, TrigScale),
         y |-> center.y + RDiv(MathSin(angle) * radius, TrigScale),
         col |-> col, row |-> row, dist |-> dist, isOriginal |-> FALSE,
         rotation |-> RDiv(360 * i * Scale, n)]
    ][baseAngle + RDiv(Pi * 2 * i, n)]

\* applySymmetry(x, y, col, row, dist, center): the instances of one base cell
applySymmetry(st, x, y, col, row, dist, center) ==
    LET original == [x |-> x, y |-> y, col |-> col, row |-> row, dist |-> dist,
                     isOriginal |-> TRUE]
        mirrorH  == [x |-> center.x * 2 - x, y |-> y, col |-> st.grid.cols - 1 - col,
                     row |-> row, dist |-> dist, isOriginal |-> FALSE]
        mirrorV  == [x |-> x, y |-> center.y * 2 - y, col |-> col,
                     row |-> st.grid.rows - 1 - row, dist |-> dist, isOriginal |-> FALSE]
        mirrorHV == [x |-> center.x * 2 - x, y |-> center.y * 2 - y,
                     col |-> st.grid.cols - 1 - col, row |-> st.grid.rows - 1 - row,
                     dist |-> dist, isOriginal |-> FALSE]
        dx == x - center.x
        dy == y - center.y
    IN CASE st.grid.symmetry = "horizontal" -> <<original, mirrorH>>
         [] st.grid.symmetry = "vertical"   -> <<original, mirrorV>>
         [] st.grid.symmetry = "both"       -> <<original, mirrorH, mirrorV, mirrorHV>>
         [] st.grid.symmetry = "radial"     ->
                [baseAngle \in Int, radius \in Int |->
                    <<original>> \o
                    [i \in 1..(st.grid.symmetryCount - 1) |->
                        RadialCopy(i, baseAngle, radius, col, row, dist, center,
                                   st.grid.symmetryCount)]
                ][MathAtan2(dy, dx), MathSqrt(Add(Mul(dx, dx), Mul(dy, dy)))]
         [] OTHER -> <<original>>

\* the body of getGridCells' inner loop with the two single mirrors pushed in the
\* opposite order
CellAtVerticalFirst(st, row, col) ==
    LET x == col * st.grid.cellSize + RDiv(st.grid.cellSize, 2) + st.grid.offsetX
        y == row * st.grid.cellSize + RDiv(st.grid.cellSize, 2) + st.grid.offsetY
        r == applySymmetry(st, x, y, col, row, getNormalizedDistance(st, x, y),
                           getGridCenter(st))
    IN IF Len(r) = 4 THEN <<r[1], r[3], r[2], r[4]>> ELSE r

\* the base cell of (row, col) expanded: the body of getGridCells' inner loop
CellAt(st, row, col) ==
    LET x == col * st.grid.cellSize + RDiv(st.grid.cellSize, 2) + st.grid.offsetX
        y == row * st.grid.cellSize + RDiv(st.grid.cellSize, 2) + st.grid.offsetY
    IN [dist \in Int |-> applySymmetry(st, x, y, col, row, dist, getGridCenter(st))
       ][getNormalizedDistance(st, x, y)]

RECURSIVE ColLoop(_, _, _)
\* `for (let col = 0; col < grid.cols; col++)`, from col on
ColLoop(st, row, col) ==
    IF col >= st.grid.cols THEN <<>> ELSE CellAt(st, row, col) \o ColLoop(st, row, col + 1)

RECURSIVE RowLoop(_, _)
\* `for (let row = 0; row < grid.rows; row++)`, from row on
RowLoop(st, row) ==
    IF row >= st.grid.rows THEN <<>> ELSE ColLoop(st, row, 0) \o RowLoop(st, row + 1)

\* getGridCells with the row loop started at 1
getGridCellsFromRowOne(st) == RowLoop(st, 1)

\* getGridCells(): the ordered cell list
getGridCells(st) == RowLoop(st, 0)

\* updateCanvasSize(): the new canvas.width and canvas.height
updateCanvasSize(st) ==
    [width  |-> st.grid.cols * st.grid.cellSize + Abs(st.grid.offsetX) * 2,
     height |-> st.grid.rows * st.grid.cellSize + Abs(st.grid.offsetY) * 2]

-----------------------------------------------------------------------------
(* Easing library and parameter mappers (state.js part of presets.js, grid.js) *)

\* a sine or cosine as a Scale-valued number
FromTrig(v) == RDiv(v * Scale, TrigScale)

\* easings.linear
easeLinear(t) == t

\* easings.easeIn
easeIn(t) == Mul(t, t)

\* easings.easeOut
easeOut(t) == Sub(Scale, Mul(Sub(Scale, t), Sub(Scale, t)))

\* easings.easeInOut
easeInOut(t) ==
    IF Lt(t, Scale \div 2) THEN Mul(2 * Scale, Mul(t, t))
    ELSE Sub(Scale, Div(MathPow2(Add(Mul(0 - 2 * Scale, t), 2 * Scale)), 2 * Scale))

\* easings.step
easeStep(t) == IF Lt(Scale \div 2, t) THEN Scale ELSE 0

\* easings.swirl
easeSwirl(t, power) ==
    IF t = NaN THEN NaN
    ELSE Add(Mul(FromTrig(MathSin(RDiv(RDiv(t * Pi, Scale) * power, Scale))), Scale \div 2),
             Scale \div 2)

\* calculateScale without the inversion `1 - distNormalized`
calculateScaleNotInverted(st, distNormalized) ==
    LET mode == st.shape.scaleMode
        t == distNormalized
        eased == CASE mode = "easeIn"    -> easeIn(t)
                   [] mode = "easeOut"   -> easeOut(t)
                   [] mode = "easeInOut" -> easeInOut(t)
                   [] mode = "step"      -> easeStep(t)
                   [] mode = "swirl"     -> easeSwirl(t, st.shape.scalePower)
                   [] OTHER              -> easeLinear(t)
    IN IF mode = "none" THEN st.shape.size
       ELSE Add(st.shape.scaleMin, Mul(Sub(st.shape.scaleMax, st.shape.scaleMin), eased))

\* calculateScale(distNormalized)
calculateScale(st, distNormalized) ==
    LET mode == st.shape.scaleMode
        t == Sub(Scale, distNormalized)
        eased == CASE mode = "easeIn"    -> easeIn(t)
                   [] mode = "easeOut"   -> easeOut(t)
                   [] mode = "easeInOut" -> easeInOut(t)
                   [] mode = "step"      -> easeStep(t)
                   [] mode = "swirl"     -> easeSwirl(t, st.shape.scalePower)
                   [] OTHER              -> easeLinear(t)
    IN IF mode = "none" THEN st.shape.size
       ELSE Add(st.shape.scaleMin, Mul(Sub(st.shape.scaleMax, st.shape.scaleMin), eased))

\* calculateRotation(distNormalized, baseRotation)
calculateRotation(st, distNormalized, baseRotation) ==
    LET mode == st.shape.rotateMode
        t == Sub(Scale, distNormalized)
        eased == CASE mode = "easeIn"  -> easeIn(t)
                   [] mode = "easeOut" -> easeOut(t)
                   [] OTHER            -> easeLinear(t)
    IN IF mode = "none" THEN baseRotation
       ELSE Add(Add(baseRotation, st.shape.rotateMin),
                Mul(Sub(st.shape.rotateMax, st.shape.rotateMin), eased))

\* noise2D(x, y) of the simplex-noise sampler: a value in [-1, 1] fixed by (x, y) and
\* the table drawn at load
noise2D(st, x, y) ==
    IF x = NaN \/ y = NaN THEN NaN
    ELSE ((x * 37 + y * 101 + st.noiseTable * 17) % (2 * Scale + 1)) - Scale

\* getNoiseValue returning the sample itself, not mapped from [-1, 1] to [0, 1]
getNoiseValueRaw(st, dist, time) ==
    IF ~st.pattern.enabled THEN Scale \div 2
    ELSE LET scale == st.pattern.noiseScale
             seed  == st.pattern.seed
             nx == Add(Mul(Mul(dist, scale), 10 * Scale), seed)
             ny == Add(Mul(time, scale), seed)
         IN noise2D(st, nx, ny)

\* getNoiseValue(dist, time)
getNoiseValue(st, dist, time) ==
    IF ~st.pattern.enabled THEN Scale \div 2
    ELSE LET scale == st.pattern.noiseScale
             seed  == st.pattern.seed
             nx == Add(Mul(Mul(dist, scale), 10 * Scale), seed)
             ny == Add(Mul(time, scale), seed)
         IN Mul(Add(noise2D(st, nx, ny), Scale), Scale \div 2)

\* getShapeSize(dist, time)
getShapeSize(st, dist, time) ==
    LET baseSize == Mul(st.grid.cellSize, st.shape.size)
        scale == calculateScale(st, dist)
        noised == IF st.pattern.enabled
                  THEN Mul(scale, Add(Scale \div 2,
                                      Mul(getNoiseValue(st, dist, time), Scale \div 2)))
                  ELSE scale
    IN Mul(baseSize, noised)

\* getShapeRotation adding the time term whether or not rotationAuto is set
getShapeRotationAlwaysAuto(st, dist, baseRotation, time) ==
    Add(calculateRotation(st, dist, baseRotation),
        Mul(Mul(time, 360 * Scale), st.shape.rotationSpeed))

\* getShapeRotation(dist, baseRotation, time)
getShapeRotation(st, dist, baseRotation, time) ==
    LET rotation == calculateRotation(st, dist, baseRotation)
    IN IF st.shape.rotationAuto
       THEN Add(rotation, Mul(Mul(time, 360 * Scale), st.shape.rotationSpeed))
       ELSE rotation

-----------------------------------------------------------------------------
(* Colours: strings as sequences of characters, parsed and formatted as the code does *)

\* the value `undefined`, where a colour string is expected
Undefined == <<"undefined">>

\* the TypeError of `undefined.slice(...)`, in place of the value never returned
TypeError == <<"TypeError">>

\* the digits Number.prototype.toString(16) writes
HexDigits == <<"0", "1", "2", "3", "4", "5", "6", "7", "8", "9", "a", "b", "c", "d", "e", "f">>

\* the upper-case letters parseInt(_, 16) reads as well
UpperHexDigits == <<"0", "1", "2", "3", "4", "5", "6", "7", "8", "9", "A", "B", "C", "D", "E", "F">>

\* the value of one character as a digit of base 16, NaN when it is none
DigitValue(c) ==
    IF \E k \in 1..16 : HexDigits[k] = c
    THEN (CHOOSE k \in 1..16 : HexDigits[k] = c) - 1
    ELSE IF \E k \in 1..16 : UpperHexDigits[k] = c
         THEN (CHOOSE k \in 1..16 : UpperHexDigits[k] = c) - 1
         ELSE NaN

\* String.prototype.slice(from, to) for 0 <= from <= to
Slice(s, from, to) ==
    IF from >= Len(s) THEN <<>>
    ELSE SubSeq(s, from + 1, IF to < Len(s) THEN to ELSE Len(s))

\* parseInt(s, 16) of a string of at most two characters: the value of its longest
\* prefix of hexadecimal digits, NaN when that prefix is empty
ParseInt16(s) ==
    IF Len(s) = 0 \/ DigitValue(s[1]) = NaN THEN NaN
    ELSE IF Len(s) = 1 \/ DigitValue(s[2]) = NaN THEN DigitValue(s[1])
    ELSE 16 * DigitValue(s[1]) + DigitValue(s[2])

\* `n.toString(16).padStart(2, '0')` for n in 0..255 or NaN
ToHex2(n) ==
    IF n = NaN THEN <<"N", "a", "N">>
    ELSE <<HexDigits[(n \div 16) + 1], HexDigits[(n % 16) + 1]>>

\* `Math.round(a + (b - a) * t)` of interpolateColor, t in hundredths
Lerp(a, b, t) ==
    IF a = NaN \/ b = NaN \/ t = NaN THEN NaN
    ELSE (2 * (a * Scale + (b - a) * t) + Scale) \div (2 * Scale)

\* interpolateColor returning its first colour unparsed when t is 0
interpolateColorShortCut(c1, c2, t) ==
    IF t = 0 THEN c1
    ELSE <<"#">> \o ToHex2(Lerp(ParseInt16(Slice(c1, 1, 3)), ParseInt16(Slice(c2, 1, 3)), t))
                 \o ToHex2(Lerp(ParseInt16(Slice(c1, 3, 5)), ParseInt16(Slice(c2, 3, 5)), t))
                 \o ToHex2(Lerp(ParseInt16(Slice(c1, 5, 7)), ParseInt16(Slice(c2, 5, 7)), t))

\* interpolateColor(c1, c2, t)
interpolateColor(c1, c2, t) ==
    IF c1 = Undefined \/ c2 = Undefined THEN TypeError
    ELSE <<"#">> \o ToHex2(Lerp(ParseInt16(Slice(c1, 1, 3)), ParseInt16(Slice(c2, 1, 3)), t))
                 \o ToHex2(Lerp(ParseInt16(Slice(c1, 3, 5)), ParseInt16(Slice(c2, 3, 5)), t))
                 \o ToHex2(Lerp(ParseInt16(Slice(c1, 5, 7)), ParseInt16(Slice(c2, 5, 7)), t))

\* `colors[i]`: undefined outside the array, and for the index NaN
At(colors, i) ==
    IF i # NaN /\ i >= 0 /\ i < Len(colors) THEN colors[i + 1] ELSE Undefined

\* an index taken as it is, without the remainder
RemNone(a, n) == a

\* `a % n` of JavaScript for a >= 0: NaN when n is 0
Rem(a, n) == IF n = 0 THEN NaN ELSE a % n

\* the 'distance' branch of getFillColor
DistanceGradient(colors, dist) ==
    IF dist = NaN THEN interpolateColor(Undefined, Undefined, NaN)
    ELSE LET t == dist * (Len(colors) - 1)
             i == t \div Scale
             frac == t - i * Scale
         IN IF i >= Len(colors) - 1 THEN At(colors, Len(colors) - 1)
            ELSE interpolateColor(At(colors, i), At(colors, i + 1), frac)

\* getFillColor with the multiplier of the 'random' branch left out
getFillColorNoMultiplier(st, dist, index, time) ==
    CASE st.shape.fillMode = "solid"    -> st.shape.fillColor
      [] st.shape.fillMode = "distance" -> DistanceGradient(st.palette.colors, dist)
      [] st.shape.fillMode = "palette"  ->
            At(st.palette.colors, Rem(index, Len(st.palette.colors)))
      [] st.shape.fillMode = "random"   ->
            At(st.palette.colors, Rem(index, Len(st.palette.colors)))
      [] OTHER                          -> st.shape.fillColor

\* getFillColor(dist, index, time)
getFillColor(st, dist, index, time) ==
    CASE st.shape.fillMode = "solid"    -> st.shape.fillColor
      [] st.shape.fillMode = "distance" -> DistanceGradient(st.palette.colors, dist)
      [] st.shape.fillMode = "palette"  ->
            At(st.palette.colors, Rem(index, Len(st.palette.colors)))
      [] st.shape.fillMode = "random"   ->
            At(st.palette.colors, Rem(index * 7, Len(st.palette.colors)))
      [] OTHER                          -> st.shape.fillColor

\* the value `null`
Null == <<"null">>

\* getStrokeColor passing the index on without the distance
getStrokeColorAtCentre(st, dist, index) ==
    CASE st.shape.strokeMode = "none"  -> Null
      [] st.shape.strokeMode = "solid" -> st.shape.strokeColor
      [] OTHER                         -> getFillColor(st, 0, index, 0)

\* getStrokeColor(dist, index)
getStrokeColor(st, dist, index) ==
    CASE st.shape.strokeMode = "none"  -> Null
      [] st.shape.strokeMode = "solid" -> st.shape.strokeColor
      [] OTHER                         -> getFillColor(st, dist, index, 0)

\* what a mode field holds after the import of a document that gives it a number or
\* null: values of the model that stand for values that are not strings
NotStrings == {"<number>", "<null>"}

\* String.prototype.toUpperCase, on the blend mode names of the model
toUpperCase(s) ==
    CASE s = "blend"    -> "BLEND"
      [] s = "add"      -> "ADD"
      [] s = "multiply" -> "MULTIPLY"
      [] s = "glow"     -> "GLOW"
      [] OTHER          -> s

\* the blend constants a p5 instance has among the names the model looks up
P5Blend == {"BLEND", "ADD", "MULTIPLY"}

\* main.js drawCell: the blend mode in effect at its drawShape call; the mode is BLEND
\* on entry, as p5 starts with it and every drawCell ends with p.blendMode(p.BLEND)
previewBlend(st) ==
    IF st.shape.blendMode # "blend" /\ toUpperCase(st.shape.blendMode) \in P5Blend
    THEN toUpperCase(st.shape.blendMode) ELSE "BLEND"

\* export.js drawCell: the blend mode in effect at its drawShape call
exportBlend(st) ==
    IF st.shape.blendMode # "blend"
    THEN IF toUpperCase(st.shape.blendMode) \in P5Blend
         THEN toUpperCase(st.shape.blendMode) ELSE "BLEND"
    ELSE "BLEND"

\* either drawCell throws before it draws: `blendMode.toUpperCase` is not a function
\* when blendMode is not a string, and getFillColor or getStrokeColor may throw
drawCellThrows(st, cell, index) ==
    \/ getFillColor(st, cell.dist, index, 0) = TypeError
    \/ getStrokeColor(st, cell.dist, index) = TypeError
    \/ st.shape.blendMode \in NotStrings

\* the position in cs of the first cell whose drawCell throws, Len(cs) + 1 when none
firstThrow(st, cs) ==
    IF \E k \in 1..Len(cs) : drawCellThrows(st, cs[k], k - 1)
    THEN CHOOSE k \in 1..Len(cs) :
            /\ drawCellThrows(st, cs[k], k - 1)
            /\ \A j \in 1..(k - 1) : ~drawCellThrows(st, cs[j], j - 1)
    ELSE Len(cs) + 1

\* getAnimationTime(frameCount): grid.js reads `animation`, which its import list
\* (line 5) does not bind, so the first statement throws a ReferenceError
getAnimationTime(st, fc) == [threw |-> TRUE, value |-> 0]

-----------------------------------------------------------------------------
(* Callers: the live preview (main.js) and the export paths (export.js) *)

\* `Math.sin(time * Math.PI * 2 + index * 0.1) * 0.5 + 0.5` of both drawCell functions
SizeWobble(time, index) ==
    Add(Mul(FromTrig(MathSin(RDiv(time * Pi * 2, Scale) + index * (TrigScale \div 10))),
            Scale \div 2),
        Scale \div 2)

\* main.js drawCell(p, cell, index, time): the drawShape call it makes
previewDrawCell(st, cell, index, time) ==
    LET size0 == getShapeSize(st, cell.dist, time)
        rot0  == getShapeRotation(st, cell.dist, st.shape.rotation, time)
        anim  == st.animation.enabled /\ st.animation.playing
        size  == IF anim /\ st.animation.animateSize
                 THEN Mul(size0, Add(70, Mul(SizeWobble(time, index), 60)))
                 ELSE size0
        rotation == IF anim /\ st.animation.animateRotation
                    THEN Add(rot0, Mul(Mul(time, 360 * Scale), st.animation.speed))
                    ELSE rot0
    IN [x |-> cell.x, y |-> cell.y, size |-> size, rotation |-> rotation,
        fillArgs |-> [dist |-> cell.dist, index |-> index, time |-> time],
        strokeArgs |-> [dist |-> cell.dist, index |-> index],
        fill |-> getFillColor(st, cell.dist, index, time),
        stroke |-> getStrokeColor(st, cell.dist, index),
        blendMode |-> previewBlend(st)]

\* export.js drawCell(pg, cell, index, scale, time): the drawShape call it makes
exportDrawCell(st, cell, index, scale, time) ==
    LET size0 == Mul(getShapeSize(st, cell.dist, time), scale * Scale)
        rot0  == getShapeRotation(st, cell.dist, st.shape.rotation, time)
        size  == IF st.animation.enabled /\ st.animation.animateSize
                 THEN Mul(size0, Add(70, Mul(SizeWobble(time, index), 60)))
                 ELSE size0
        rotation == IF st.animation.enabled /\ st.animation.animateRotation
                    THEN Add(rot0, Mul(time, 360 * Scale))
                    ELSE rot0
    IN [x |-> cell.x * scale, y |-> cell.y * scale, size |-> size, rotation |-> rotation,
        fillArgs |-> [dist |-> cell.dist, index |-> index, time |-> time],
        strokeArgs |-> [dist |-> cell.dist, index |-> index],
        fill |-> getFillColor(st, cell.dist, index, time),
        stroke |-> getStrokeColor(st, cell.dist, index),
        blendMode |-> exportBlend(st)]

\* the entry exportSVG pushes for cells[i]
svgShape(st, cell, i) ==
    [x |-> cell.x, y |-> cell.y,
     size |-> Mul(getShapeSize(st, cell.dist, 0), st.shape.size),
     rotation |-> getShapeRotation(st, cell.dist, st.shape.rotation, 0),
     fillArgs |-> [dist |-> cell.dist, index |-> i, time |-> 0],
     strokeArgs |-> [dist |-> cell.dist, index |-> i],
     fill |-> getFillColor(st, cell.dist, i, 0),
     stroke |-> getStrokeColor(st, cell.dist, i)]

\* the loop of p.draw counting its cells from 1
previewPassFromOne(st, cs, time) ==
    [k \in 1..Len(cs) |-> previewDrawCell(st, cs[k], k, time)]

\* `for (let i = 0; i < cells.length; i++) drawCell(p, cells[i], i, time)` of p.draw:
\* the shapes drawn, which end before the first cell whose drawCell throws
previewPass(st, cs, time) ==
    [k \in 1..(firstThrow(st, cs) - 1) |-> previewDrawCell(st, cs[k], k - 1, time)]

\* the same loop of exportPNG and of one frame of exportSequence
exportPass(st, cs, scale, time) ==
    [k \in 1..(firstThrow(st, cs) - 1) |-> exportDrawCell(st, cs[k], k - 1, scale, time)]

\* the loop of exportSVG, which calls getFillColor and getStrokeColor itself
svgPass(st, cs) ==
    [k \in 1..(firstThrow([st EXCEPT !.shape.blendMode = "blend"], cs) - 1) |->
        svgShape(st, cs[k], k - 1)]

\* the `time` p.draw computes: `animation.enabled ? getAnimationTime(frameCount) : 0`
drawTime(st, fc) ==
    IF st.animation.enabled THEN getAnimationTime(st, fc)
    ELSE [threw |-> FALSE, value |-> 0]

\* p.draw(): the cells it enumerates, the shapes it draws, and frameCount afterwards;
\* nothing is drawn when computing `time` threw, and the loop ends where drawCell throws
pDraw(st, fc) ==
    LET t == drawTime(st, fc)
    IN IF t.threw
       THEN [failed |-> TRUE, cells |-> <<>>, frame |-> <<>>, frameCount |-> fc]
       ELSE [cs \in {getGridCells(st)} |->
                [failed |-> firstThrow(st, cs) <= Len(cs), cells |-> cs,
                 frame |-> previewPass(st, cs, t.value),
                 frameCount |-> IF st.animation.playing /\ firstThrow(st, cs) > Len(cs)
                                THEN fc + st.animation.speed ELSE fc]
            ][getGridCells(st)]

\* p.redraw() at the end of a handler: p.draw on the state the handler has written
Redraw ==
    \E d \in {pDraw(Store', frameCount)} :
        /\ drawFailed' = d.failed
        /\ cells' = d.cells
        /\ frame' = d.frame
        /\ frameCount' = d.frameCount

\* the handler onParamChange: p.redraw()
onParamChange == Redraw /\ UNCHANGED <<canvas, looping>>

\* the handler onGridChange: updateCanvasSize(), resizeCanvas, p.redraw()
onGridChange == canvas' = updateCanvasSize(Store') /\ Redraw /\ UNCHANGED looping

-----------------------------------------------------------------------------
(* Configuration: defaults of state.js and the bounded inputs of the model *)

\* state.js `shape`, the fields the mappers read
DefaultShape ==
    [size |-> 80, rotation |-> 0, rotationAuto |-> FALSE, rotationSpeed |-> 50,
     scaleMode |-> "linear", scaleMin |-> 20, scaleMax |-> 100, scalePower |-> 100,
     rotateMode |-> "none", rotateMin |-> 0, rotateMax |-> 360 * Scale,
     fillMode |-> "solid", fillColor |-> <<"#", "4", "a", "9", "e", "f", "f">>,
     strokeMode |-> "none", strokeColor |-> <<"#", "f", "f", "f", "f", "f", "f">>,
     blendMode |-> "blend"]

\* state.js `palette`: a colour is the sequence of the characters of its string
DefaultPalette ==
    [colors |-> << <<"#", "4", "a", "9", "e", "f", "f">>,
                   <<"#", "f", "f", "6", "b", "6", "b">>,
                   <<"#", "4", "e", "c", "d", "c", "4">>,
                   <<"#", "f", "f", "e", "6", "6", "d">>,
                   <<"#", "a", "8", "e", "6", "c", "f">> >>]

\* state.js `canvas.background`
DefaultBackground == <<"#", "1", "1", "1", "1", "1", "1">>

\* no file has been downloaded
NoFile == [text |-> "none"]

\* state.js `pattern`
DefaultPattern ==
    [enabled |-> FALSE, seed |-> 1 * Scale, noiseScale |-> 10, noiseIntensity |-> 50]

\* state.js `animation`
DefaultAnimation ==
    [enabled |-> FALSE, speed |-> 1 * Scale, loopDuration |-> 120, playing |-> FALSE,
     animateSize |-> TRUE, animateRotation |-> FALSE]

\* state.js `exportSettings`
DefaultExportSettings == [format |-> "png", scale |-> 1, status |-> "Ready"]

\* no call of a core function has been made in the current configuration
NoProbe == [fn |-> "none"]

\* no export pass has run
NoExport == [format |-> "none"]

\* the last export of the current configuration threw and saved nothing
FailedExport == [format |-> "failed"]

\* the largest number of columns of a grid of the model
MaxCols == 3

\* the largest number of rows of a grid of the model
MaxRows == 2

\* the largest radial count of the model (the UI offers 3..24)
MaxSymmetryCount == 4

\* the symmetry modes of the UI and one value outside the enumeration
Symmetries == {"none", "horizontal", "vertical", "both", "radial", "spiral"}

\* cell sizes of the Cell Size slider (10..200)
CellSizes == {10 * Scale, 10 * Scale * 10}

\* horizontal offsets
OffsetsX == {0 - 10 * Scale, 0}

\* vertical offsets
OffsetsY == {0, 30 * Scale}

\* the grids the controls can set up
GridConfigs ==
    [cols : 1..MaxCols, rows : 1..MaxRows, cellSize : CellSizes,
     offsetX : OffsetsX, offsetY : OffsetsY,
     symmetry : Symmetries \ {"spiral"}, symmetryCount : 3..MaxSymmetryCount]

\* applyState(target, source) on one flat section
\* applyState setting the rotation to 0 when the source does not name it
applyStateClearsRotation(target, source) ==
    [k \in DOMAIN target \cup DOMAIN source |->
        IF k \in DOMAIN source THEN source[k]
        ELSE IF k = "rotation" THEN 0 ELSE target[k]]

\* applyState(target, source): the fields of the model are not objects, so each key of
\* source is assigned
applyState(target, source) ==
    [k \in DOMAIN target \cup DOMAIN source |->
        IF k \in DOMAIN source THEN source[k] ELSE target[k]]

\* JSON documents a user may import: partial presets
ImportDocs ==
    {[grid |-> [cols |-> 0, rows |-> 0]],
     [grid |-> [cellSize |-> 0]],
     [grid |-> [cols |-> 2, rows |-> 1, cellSize |-> 10 * Scale, symmetry |-> "radial",
                symmetryCount |-> 4]],
     [grid |-> [symmetry |-> "spiral"], shape |-> [scaleMode |-> "linear"]]}

-----------------------------------------------------------------------------
(* The grid controls, JSON import and direct calls of the distance field *)

\* `exported` and `probe` observe the current configuration: a handler that writes
\* the configuration empties them
Forget == probe' = NoProbe /\ exported' = NoExport

\* a grid binding whose change handler is onGridChange
GridBinding(key, v) ==
    /\ grid[key] # v
    /\ grid' = [grid EXCEPT ![key] = v]
    /\ UNCHANGED <<shape, pattern, animation, exportSettings, palette, background,
                   noiseTable, fileVars, seqExport, statusTimers>>
    /\ Forget
    /\ onGridChange

\* a grid binding whose change handler is onParamChange
GridParamBinding(key, v) ==
    /\ grid[key] # v
    /\ grid' = [grid EXCEPT ![key] = v]
    /\ UNCHANGED <<shape, pattern, animation, exportSettings, palette, background,
                   noiseTable, fileVars, seqExport, statusTimers>>
    /\ Forget
    /\ onParamChange

\* the Columns slider (1..50)
SetCols(v) == v >= 1 /\ GridBinding("cols", v)

\* the Rows slider (1..50)
SetRows(v) == v >= 1 /\ GridBinding("rows", v)

\* the Cell Size slider (10..200)
SetCellSize(v) == GridBinding("cellSize", v)

\* the Offset X slider
SetOffsetX(v) == GridBinding("offsetX", v)

\* the Offset Y slider
SetOffsetY(v) == GridBinding("offsetY", v)

\* the Symmetry list
SetSymmetry(v) == v # "spiral" /\ GridParamBinding("symmetry", v)

\* the Radial Count slider (3..24)
SetSymmetryCount(v) == GridParamBinding("symmetryCount", v)

\* a text JSON.parse rejects
Unparseable == [syntaxError |-> TRUE]

\* the text `null`, which JSON.parse accepts
NullDoc == [null |-> TRUE]

\* a value of palette.colors that is not iterable (a number, true, an object)
NotIterable == << <<"<number>">> >>

\* importState throws before applyPreset writes anything: JSON.parse on the text, or
\* `preset.grid` on null
throwsBeforeApplying(doc) == doc \in {Unparseable, NullDoc}

\* applyPreset throws at `[...preset.palette.colors]`, after the grid, shape, pattern and
\* animation sections were merged
applyPresetThrows(preset) ==
    /\ "palette" \in DOMAIN preset
    /\ "colors" \in DOMAIN preset.palette
    /\ preset.palette.colors = NotIterable

\* applyPreset(preset): the sections of the document merged onto the state in the order
\* grid, shape, pattern, animation, palette, canvas; of the palette section only the
\* colours are copied, and of the canvas section the documents of the model name at most
\* the background; when the copy of the colours throws, the sections before it have
\* been merged and the palette and canvas are left alone
applyPreset(preset) ==
    /\ grid' = IF "grid" \in DOMAIN preset THEN applyState(grid, preset.grid) ELSE grid
    /\ shape' = IF "shape" \in DOMAIN preset THEN applyState(shape, preset.shape) ELSE shape
    /\ pattern' = IF "pattern" \in DOMAIN preset
                  THEN applyState(pattern, preset.pattern) ELSE pattern
    /\ animation' = IF "animation" \in DOMAIN preset
                    THEN applyState(animation, preset.animation) ELSE animation
    /\ palette' = IF "palette" \in DOMAIN preset /\ "colors" \in DOMAIN preset.palette
                     /\ ~applyPresetThrows(preset)
                  THEN [palette EXCEPT !.colors = preset.palette.colors] ELSE palette
    /\ background' = IF "canvas" \in DOMAIN preset /\ "background" \in DOMAIN preset.canvas
                        /\ ~applyPresetThrows(preset)
                     THEN preset.canvas.background ELSE background

\* the Import JSON button: importState(json) and, when it returned true, onGridChange;
\* when it returned false the handler does nothing more
ImportJSON(doc) ==
    /\ IF throwsBeforeApplying(doc)
       THEN UNCHANGED <<grid, shape, pattern, animation, palette, background>>
       ELSE applyPreset(doc)
    /\ UNCHANGED <<exportSettings, noiseTable, fileVars, seqExport, statusTimers>>
    /\ exported' = NoExport
    /\ IF throwsBeforeApplying(doc) \/ applyPresetThrows(doc)
       THEN /\ probe' = [fn |-> "importState", json |-> doc, returned |-> FALSE]
            /\ UNCHANGED drawVars
       ELSE /\ probe' = [fn |-> "importState", json |-> doc, returned |-> TRUE]
            /\ onGridChange

\* a direct call getNormalizedDistance(x, y)
CallGetNormalizedDistance(x, y) ==
    /\ probe' = [fn |-> "getNormalizedDistance", x |-> x, y |-> y,
                 result |-> getNormalizedDistance(Store, x, y)]
    /\ UNCHANGED <<cfgVars, fileVars, drawVars, exportVars>>

\* the abscissas a direct call is made at: the centre, both sides of the bounding box
\* and a point that is none of them
ProbeXs ==
    {getGridCenter(Store).x, grid.offsetX, grid.offsetX + grid.cols * grid.cellSize,
     15 * Scale + 1}

\* the ordinates a direct call is made at: the centre, top and bottom of the bounding box
ProbeYs ==
    {getGridCenter(Store).y, grid.offsetY, grid.offsetY + grid.rows * grid.cellSize}

\* the state after setup() and the first p.draw, for the configuration chosen
AfterSetup ==
    /\ canvas = updateCanvasSize(Store)
    /\ \E d \in {pDraw(Store, 0)} :
            /\ drawFailed = d.failed
            /\ cells = d.cells
            /\ frame = d.frame
            /\ frameCount = d.frameCount
    /\ looping = FALSE
    /\ savedJSON = NoFile
    /\ userPresets = [n \in {} |-> NoFile]
    /\ loading = <<>>
    /\ seqExport = <<>>
    /\ exported = NoExport
    /\ statusTimers = 0
    /\ probe = NoProbe

\* the state after setup() on any grid the controls can set up
InitGrid ==
    /\ grid \in GridConfigs
    /\ shape = DefaultShape
    /\ pattern = DefaultPattern
    /\ animation = DefaultAnimation
    /\ exportSettings = DefaultExportSettings
    /\ palette = DefaultPalette
    /\ background = DefaultBackground
    /\ noiseTable = 0
    /\ AfterSetup

\* the state after setup() on the default grid of state.js, cut to the model's columns
\* and rows
InitControls ==
    /\ grid = [cols |-> MaxCols, rows |-> MaxRows, cellSize |-> 60 * Scale, offsetX |-> 0,
               offsetY |-> 0, symmetry |-> "none", symmetryCount |-> 6]
    /\ shape = DefaultShape
    /\ pattern = DefaultPattern
    /\ animation = DefaultAnimation
    /\ exportSettings = DefaultExportSettings
    /\ palette = DefaultPalette
    /\ background = DefaultBackground
    /\ noiseTable = 0
    /\ AfterSetup

NextGrid ==
    \/ \E v \in 1..MaxCols : SetCols(v)
    \/ \E v \in 1..MaxRows : SetRows(v)
    \/ \E v \in CellSizes : SetCellSize(v)
    \/ \E v \in OffsetsX : SetOffsetX(v)
    \/ \E v \in OffsetsY : SetOffsetY(v)
    \/ \E v \in Symmetries : SetSymmetry(v)
    \/ \E v \in 3..MaxSymmetryCount : SetSymmetryCount(v)
    \/ \E doc \in ImportDocs : ImportJSON(doc)

\* the grid controls and JSON import, each followed by its redraw
SpecGrid == InitControls /\ [][NextGrid]_vars

NextDistance ==
    \/ \E x \in ProbeXs, y \in ProbeYs : CallGetNormalizedDistance(x, y)
    \/ \E doc \in ImportDocs : ImportJSON(doc)

\* direct calls of getNormalizedDistance on every grid of the model
SpecDistance == InitGrid /\ [][NextDistance]_vars

-----------------------------------------------------------------------------
(* The shape and pattern controls and direct calls of the Size Mapper *)

\* a shape binding: its change handler is onParamChange
ShapeBinding(key, v) ==
    /\ shape[key] # v
    /\ shape' = [shape EXCEPT ![key] = v]
    /\ UNCHANGED <<grid, pattern, animation, exportSettings, palette, background, noiseTable,
                   fileVars, seqExport, statusTimers>>
    /\ Forget
    /\ onParamChange

\* a pattern binding: its change handler is onParamChange
PatternBinding(key, v) ==
    /\ pattern[key] # v
    /\ pattern' = [pattern EXCEPT ![key] = v]
    /\ UNCHANGED <<grid, shape, animation, exportSettings, palette, background, noiseTable,
                   fileVars, seqExport, statusTimers>>
    /\ Forget
    /\ onParamChange

\* the Size slider (0.1..1.5)
SetSize(v) == ShapeBinding("size", v)

\* the Scale Mode list
SetScaleMode(v) == ShapeBinding("scaleMode", v)

\* the Scale Min slider (0..1)
SetScaleMin(v) == ShapeBinding("scaleMin", v)

\* the Scale Max slider (0..2)
SetScaleMax(v) == ShapeBinding("scaleMax", v)

\* the pattern's Enable box
SetPatternEnabled(v) == PatternBinding("enabled", v)

\* the pattern's Seed slider (1..1000)
SetSeed(v) == PatternBinding("seed", v)

\* the pattern's Scale slider (0.01..1)
SetNoiseScale(v) == PatternBinding("noiseScale", v)

\* the pattern's Intensity slider (0..1)
SetNoiseIntensity(v) == PatternBinding("noiseIntensity", v)

\* a direct call getShapeSize(dist, time)
CallGetShapeSize(dist, time) ==
    /\ probe' = [fn |-> "getShapeSize", dist |-> dist, time |-> time,
                 result |-> getShapeSize(Store, dist, time)]
    /\ UNCHANGED <<cfgVars, fileVars, drawVars, exportVars>>

\* the number of noise tables createNoise2D() may have drawn
MaxNoiseTable == 2

\* values of the Size slider
Sizes == {80, 55}

\* the scale modes of the list
ScaleModes == {"none", "linear", "easeIn", "easeOut", "easeInOut", "step", "swirl"}

\* values of the Scale Min slider
ScaleMins == {20, 0}

\* values of the Scale Max slider
ScaleMaxs == {Scale, 150}

\* values of the Seed slider
Seeds == {1 * Scale, 7 * Scale}

\* values of the pattern's Scale slider
NoiseScales == {10, 33}

\* normalized distances a direct call is made with
ProbeDists == {0, 37, Scale}

\* animation times a direct call is made with
ProbeTimes == {0, 25}

\* the grids of the Size Mapper runs: the 1 x 1 grid of cell size 100 and a 2 x 2 grid
SizeGrids ==
    {[cols |-> 1, rows |-> 1, cellSize |-> 10 * Scale * 10, offsetX |-> 0, offsetY |-> 0,
      symmetry |-> "none", symmetryCount |-> 6],
     [cols |-> 2, rows |-> 2, cellSize |-> 60 * Scale, offsetX |-> 0, offsetY |-> 0,
      symmetry |-> "none", symmetryCount |-> 6]}

InitSize ==
    /\ grid \in SizeGrids
    /\ shape \in {[DefaultShape EXCEPT !.scaleMode = m] : m \in {"linear", "swirl"}}
    /\ pattern \in {[DefaultPattern EXCEPT !.enabled = e] : e \in BOOLEAN}
    /\ animation = DefaultAnimation
    /\ exportSettings = DefaultExportSettings
    /\ palette = DefaultPalette
    /\ background = DefaultBackground
    /\ noiseTable \in 0..MaxNoiseTable
    /\ AfterSetup

NextSize ==
    \/ \E d \in ProbeDists, t \in ProbeTimes : CallGetShapeSize(d, t)
    \/ \E v \in Sizes : SetSize(v)
    \/ \E v \in ScaleModes : SetScaleMode(v)
    \/ \E v \in ScaleMins : SetScaleMin(v)
    \/ \E v \in ScaleMaxs : SetScaleMax(v)
    \/ \E v \in BOOLEAN : SetPatternEnabled(v)
    \/ \E v \in Seeds : SetSeed(v)
    \/ \E v \in NoiseScales : SetNoiseScale(v)

\* direct calls of getShapeSize under every setting of the shape and pattern controls
SpecSize == InitSize /\ [][NextSize]_vars

\* values of the pattern's Intensity slider
NoiseIntensities == {0, 50, Scale}

\* JSON documents naming a noise intensity: the pattern sections of the built-in
\* presets 'Organic Swirl' and 'Noise Texture'
IntensityDocs ==
    {[pattern |-> [enabled |-> TRUE, noiseScale |-> 20, noiseIntensity |-> 60,
                   seed |-> 42 * Scale]],
     [pattern |-> [enabled |-> TRUE, noiseScale |-> 30, noiseIntensity |-> 80,
                   seed |-> 123 * Scale]]}

InitPattern ==
    /\ grid \in SizeGrids
    /\ shape = [DefaultShape EXCEPT !.scaleMode = "linear"]
    /\ pattern = DefaultPattern
    /\ animation = DefaultAnimation
    /\ exportSettings = DefaultExportSettings
    /\ palette = DefaultPalette
    /\ background = DefaultBackground
    /\ noiseTable \in 0..MaxNoiseTable
    /\ AfterSetup

NextPattern ==
    \/ \E d \in ProbeDists, t \in ProbeTimes : CallGetShapeSize(d, t)
    \/ \E v \in BOOLEAN : SetPatternEnabled(v)
    \/ \E v \in Seeds : SetSeed(v)
    \/ \E v \in NoiseScales : SetNoiseScale(v)
    \/ \E v \in NoiseIntensities : SetNoiseIntensity(v)
    \/ \E doc \in IntensityDocs : ImportJSON(doc)

\* direct calls of getShapeSize under every setting of the pattern controls
SpecPattern == InitPattern /\ [][NextPattern]_vars

-----------------------------------------------------------------------------
(* The rotation controls and direct calls of the Rotation Mapper *)

\* the Rotation slider (0..360)
SetRotation(v) == ShapeBinding("rotation", v)

\* the Auto Rotate box
SetRotationAuto(v) == ShapeBinding("rotationAuto", v)

\* the Rot Speed slider (-2..2)
SetRotationSpeed(v) == ShapeBinding("rotationSpeed", v)

\* a direct call getShapeRotation(dist, baseRotation, time)
CallGetShapeRotation(dist, baseRotation, time) ==
    /\ probe' = [fn |-> "getShapeRotation", dist |-> dist, baseRotation |-> baseRotation,
                 time |-> time,
                 result |-> getShapeRotation(Store, dist, baseRotation, time)]
    /\ UNCHANGED <<cfgVars, fileVars, drawVars, exportVars>>

\* values of the Rotation slider, also the base rotations of direct calls
Rotations == {0, 45 * Scale}

\* values of the Rot Speed slider
RotationSpeeds == {50, 0 - 120}

\* presets that set the rotation mode and range, which no control of the panel does
RotateDocs ==
    {[shape |-> [rotateMode |-> m]] : m \in {"none", "linear", "easeIn", "easeOut"}}
    \cup {[shape |-> [rotateMin |-> 10 * Scale, rotateMax |-> 90 * Scale]],
          [shape |-> [rotateMin |-> 180 * Scale, rotateMax |-> 0]]}

NextRotation ==
    \/ \E d \in ProbeDists, b \in Rotations, t \in ProbeTimes :
            CallGetShapeRotation(d, b, t)
    \/ \E v \in Rotations : SetRotation(v)
    \/ \E v \in BOOLEAN : SetRotationAuto(v)
    \/ \E v \in RotationSpeeds : SetRotationSpeed(v)
    \/ \E doc \in RotateDocs : ImportJSON(doc)

\* direct calls of getShapeRotation under every setting of the rotation parameters
SpecRotation == InitControls /\ [][NextRotation]_vars

-----------------------------------------------------------------------------
(* The colour controls and direct calls of the Fill/Stroke Color Mapper *)

\* the Fill Mode list
SetFillMode(v) == ShapeBinding("fillMode", v)

\* the Stroke Mode list: None, Solid, Match Fill ('distance')
SetStrokeMode(v) == ShapeBinding("strokeMode", v)

\* `palette.colors[i] = ev.value`: an index past the end lengthens the array and
\* leaves the elements between undefined
WriteAt(colors, i, c) ==
    [k \in 1..(IF i + 1 > Len(colors) THEN i + 1 ELSE Len(colors)) |->
        IF k = i + 1 THEN c ELSE IF k <= Len(colors) THEN colors[k] ELSE Undefined]

\* the colour picker Color i+1 of the palette
SetPaletteColor(i, c) ==
    /\ palette' = [palette EXCEPT !.colors = WriteAt(palette.colors, i, c)]
    /\ UNCHANGED <<grid, shape, pattern, animation, background, exportSettings, noiseTable,
                   fileVars, seqExport, statusTimers>>
    /\ Forget
    /\ onParamChange

\* a direct call getFillColor(dist, index, time)
CallGetFillColor(dist, index, time) ==
    /\ probe' = [fn |-> "getFillColor", dist |-> dist, index |-> index, time |-> time,
                 result |-> getFillColor(Store, dist, index, time)]
    /\ UNCHANGED <<cfgVars, fileVars, drawVars, exportVars>>

\* a direct call getStrokeColor(dist, index)
CallGetStrokeColor(dist, index) ==
    /\ probe' = [fn |-> "getStrokeColor", dist |-> dist, index |-> index,
                 result |-> getStrokeColor(Store, dist, index)]
    /\ UNCHANGED <<cfgVars, fileVars, drawVars, exportVars>>

\* the greatest cell index of a direct call
MaxIndex == 20

\* the greatest cell index of a direct call of getStrokeColor
MaxStrokeIndex == 6

\* the first and the last of the five pickers of the palette
PaletteSlots == {0, 4}

\* a colour a picker hands over: lower-case #rrggbb
PickerColors == {<<"#", "1", "0", "8", "0", "f", "f">>}

\* the entries of fillModeOptions
FillModes == {"solid", "distance", "palette", "random"}

\* the options of the Stroke Mode list
StrokeModes == {"none", "solid", "distance"}

\* documents whose palette the panel cannot produce: two colours with upper-case
\* digits, two of the three-digit form, a single colour, none
ColorDocs ==
    {[palette |-> [colors |-> << <<"#", "F", "F", "0", "0", "0", "0">>,
                                 <<"#", "0", "0", "0", "0", "F", "F">> >>]],
     [palette |-> [colors |-> << <<"#", "f", "0", "0">>, <<"#", "0", "0", "f">> >>]],
     [palette |-> [colors |-> << <<"#", "4", "a", "9", "e", "f", "f">> >>]],
     [palette |-> [colors |-> <<>>]]}

\* documents with a two-colour palette and with a stroke mode off the list
StrokeDocs ==
    {[palette |-> [colors |-> << <<"#", "2", "0", "4", "0", "6", "0">>,
                                 <<"#", "4", "0", "2", "0", "f", "f">> >>]],
     [shape |-> [strokeMode |-> "palette"]]}

NextColor ==
    \/ \E d \in ProbeDists, i \in 0..MaxIndex, t \in ProbeTimes : CallGetFillColor(d, i, t)
    \/ \E v \in FillModes : SetFillMode(v)
    \/ \E i \in PaletteSlots, c \in PickerColors : SetPaletteColor(i, c)
    \/ \E doc \in ColorDocs : ImportJSON(doc)

\* direct calls of getFillColor under every fill mode and palette
SpecColor == InitControls /\ [][NextColor]_vars

NextStroke ==
    \/ \E d \in ProbeDists, i \in 0..MaxStrokeIndex : CallGetStrokeColor(d, i)
    \/ \E v \in FillModes : SetFillMode(v)
    \/ \E v \in StrokeModes : SetStrokeMode(v)
    \/ \E doc \in StrokeDocs : ImportJSON(doc)

\* direct calls of getStrokeColor under every stroke mode and fill mode
SpecStroke == InitControls /\ [][NextStroke]_vars

-----------------------------------------------------------------------------
(* Presets: Load Preset, Save as User Preset, Export JSON and the import of its file *)

\* the Background picker
SetBackground(c) ==
    /\ background' = c
    /\ UNCHANGED <<grid, shape, pattern, animation, palette, exportSettings, noiseTable,
                   fileVars, seqExport, statusTimers>>
    /\ Forget
    /\ onParamChange

\* the object saveUserPreset stores and exportCurrentState serialises
Snapshot ==
    [grid |-> grid, shape |-> shape, pattern |-> pattern, animation |-> animation,
     palette |-> [colors |-> palette.colors], canvas |-> [background |-> background]]

\* JSONArray leaving undefined elements as they are
JSONArrayKeepsUndefined(a) == a

\* an array of colours after JSON.stringify and JSON.parse: an undefined element is
\* written as null; strings come back as they were
JSONArray(a) == [k \in 1..Len(a) |-> IF a[k] = Undefined THEN Null ELSE a[k]]

\* what JSON.parse makes of the text exportCurrentState() returns: the fields of grid,
\* shape, pattern and animation hold finite numbers, strings and booleans, which
\* JSON.stringify writes and JSON.parse reads back unchanged
exportCurrentState == [Snapshot EXCEPT !.palette.colors = JSONArray(@)]

\* the Export JSON button; S is the state the text was taken in
ExportJSON ==
    /\ savedJSON' = [text |-> exportCurrentState, S |-> Snapshot]
    /\ UNCHANGED <<cfgVars, userPresets, loading, drawVars, exportVars, probe>>

\* the Import JSON button on the file Export JSON downloaded
ImportSaved == savedJSON # NoFile /\ ImportJSON(savedJSON.text)

\* the Save as User Preset button, the prompt answered with name
SaveUserPreset(name) ==
    /\ userPresets' = [n \in DOMAIN userPresets \cup {name} |->
                            IF n = name THEN Snapshot ELSE userPresets[n]]
    /\ UNCHANGED <<cfgVars, savedJSON, loading, drawVars, exportVars, probe>>

\* builtInPresets: 'Radial Gradient' and 'Neon Circles' of the twelve, with the keys
\* they name (the shape's type left out); the grids of the model are smaller than theirs
builtInPresets ==
    [RadialGradient |->
        [grid |-> [cols |-> 2, rows |-> 1, cellSize |-> 40 * Scale, symmetry |-> "radial",
                   symmetryCount |-> MaxSymmetryCount],
         shape |-> [size |-> 90, scaleMode |-> "easeOut", scaleMin |-> 10,
                    scaleMax |-> 100],
         palette |-> [colors |-> << <<"#", "f", "f", "6", "b", "6", "b">>,
                                    <<"#", "f", "e", "c", "a", "5", "7">>,
                                    <<"#", "4", "8", "d", "b", "f", "b">>,
                                    <<"#", "f", "f", "9", "f", "f", "3">>,
                                    <<"#", "5", "4", "a", "0", "f", "f">> >>]],
     NeonCircles |->
        [grid |-> [cols |-> 2, rows |-> 2, cellSize |-> 80 * Scale, symmetry |-> "none"],
         shape |-> [size |-> 120, scaleMode |-> "linear", scaleMin |-> 20,
                    scaleMax |-> 100, blendMode |-> "add"],
         palette |-> [colors |-> << <<"#", "f", "f", "0", "0", "f", "f">>,
                                    <<"#", "0", "0", "f", "f", "f", "f">>,
                                    <<"#", "f", "f", "f", "f", "0", "0">>,
                                    <<"#", "f", "f", "0", "0", "8", "0">>,
                                    <<"#", "8", "0", "0", "0", "f", "f">> >>]]]

\* resetToDefault(): the fields it writes
resetToDefault ==
    /\ grid' = [grid EXCEPT !.cols = MaxCols, !.rows = MaxRows, !.cellSize = 60 * Scale,
                            !.offsetX = 0, !.offsetY = 0, !.symmetry = "none",
                            !.symmetryCount = 6]
    /\ shape' = [shape EXCEPT !.size = 80, !.rotation = 0, !.rotationAuto = FALSE,
                              !.scaleMode = "linear", !.scaleMin = 20, !.scaleMax = 100,
                              !.fillMode = "solid", !.fillColor = DefaultShape.fillColor,
                              !.strokeMode = "none", !.blendMode = "blend"]
    /\ pattern' = [pattern EXCEPT !.enabled = FALSE, !.seed = 1 * Scale,
                                  !.noiseScale = 10, !.noiseIntensity = 50]
    /\ animation' = [animation EXCEPT !.enabled = FALSE, !.playing = FALSE,
                                      !.speed = 1 * Scale, !.loopDuration = 120]
    /\ palette' = [palette EXCEPT !.colors = DefaultPalette.colors]
    /\ background' = DefaultBackground

\* `builtInPresets[name] || userPresets[name]`
presetNamed(name) ==
    IF name \in DOMAIN builtInPresets THEN builtInPresets[name] ELSE userPresets[name]

\* the Load Preset list: loadPreset(name) returned true, then onGridChange
LoadPreset(name) ==
    /\ name = "** Default **" \/ name \in DOMAIN builtInPresets \cup DOMAIN userPresets
    /\ IF name = "** Default **" THEN resetToDefault ELSE applyPreset(presetNamed(name))
    /\ UNCHANGED <<exportSettings, noiseTable, fileVars, seqExport, statusTimers>>
    /\ probe' = [fn |-> "loadPreset", name |-> name]
    /\ exported' = NoExport
    /\ onGridChange

\* a colour the Background picker hands over
Backgrounds == {<<"#", "2", "0", "2", "0", "4", "0">>}

\* a document with a palette of two colours
TwoColorDoc ==
    [palette |-> [colors |-> << <<"#", "2", "0", "4", "0", "6", "0">>,
                                <<"#", "4", "0", "2", "0", "f", "f">> >>]]

NextRoundTrip ==
    \/ ExportJSON
    \/ ImportSaved
    \/ \E c \in Backgrounds : SetBackground(c)
    \/ \E c \in PickerColors : SetPaletteColor(4, c)
    \/ SetFillMode("palette")
    \/ ImportJSON(TwoColorDoc)
    \/ \E name \in {"** Default **", "NeonCircles"} : LoadPreset(name)

\* Export JSON in any state, edits, loads and resets, and the import of the file
SpecRoundTrip == InitControls /\ [][NextRoundTrip]_vars

\* documents that name a few keys of one section
PartialDocs ==
    {[shape |-> [scaleMin |-> 0, rotateMode |-> "easeIn"]],
     [canvas |-> [background |-> <<"#", "2", "0", "2", "0", "4", "0">>]]}

\* the names the Load Preset list and the prompt of Save as User Preset hand over
PresetNames == {"** Default **", "NeonCircles", "mine"}

NextPresets ==
    \/ \E name \in PresetNames : LoadPreset(name)
    \/ SaveUserPreset("mine")
    \/ \E doc \in PartialDocs : ImportJSON(doc)
    \/ SetRotation(45 * Scale)
    \/ SetRotationSpeed(0 - 120)
    \/ \E c \in Backgrounds : SetBackground(c)

\* loads of built-in presets, of a user preset and of partial documents, between edits
SpecPresets == InitControls /\ [][NextPresets]_vars

\* names the prompt of Save as User Preset is answered with: one of the user's own and
\* the name of a built-in preset
UserPresetNames == {"mine", "NeonCircles"}

NextUserPresets ==
    \/ \E name \in UserPresetNames : SaveUserPreset(name)
    \/ \E name \in UserPresetNames \cup {"** Default **"} : LoadPreset(name)
    \/ SetRotation(45 * Scale)
    \/ \E c \in PickerColors : SetPaletteColor(0, c)

\* user presets saved under several names, edits of the live state and loads
SpecUserPresets == InitControls /\ [][NextUserPresets]_vars

\* the handler's second p.redraw(): p.draw once more on the state the handler has written
RedrawTwice ==
    \E d1 \in {pDraw(Store', frameCount)} :
        \E d \in {pDraw(Store', d1.frameCount)} :
            /\ drawFailed' = d.failed
            /\ cells' = d.cells
            /\ frame' = d.frame
            /\ frameCount' = d.frameCount

\* a palette randomizeColors() may write: five colours hslToHex returns
RandomPalette ==
    << <<"#", "d", "9", "4", "0", "4", "0">>, <<"#", "d", "9", "8", "c", "4", "0">>,
       <<"#", "d", "9", "d", "9", "4", "0">>, <<"#", "8", "c", "d", "9", "4", "0">>,
       <<"#", "4", "0", "d", "9", "4", "0">> >>

\* the Randomize All button: randomizeAll(), which draws the grid size, the shape, the
\* colours and the pattern and calls onGridChange, then onParamChange; c, r, cs and e are
\* the columns, rows, cell size and pattern switch Math.random() decided
RandomizeAll(c, r, cs, e) ==
    /\ grid' = [grid EXCEPT !.cols = c, !.rows = r, !.cellSize = cs]
    /\ shape' = [shape EXCEPT !.size = 55, !.rotation = 45 * Scale, !.scaleMode = "easeIn",
                              !.scaleMin = 20, !.scaleMax = Scale]
    /\ palette' = [palette EXCEPT
                        !.colors = [k \in 1..(IF Len(@) > 5 THEN Len(@) ELSE 5) |->
                                        IF k <= 5 THEN RandomPalette[k] ELSE @[k]]]
    /\ pattern' = [pattern EXCEPT !.enabled = e, !.seed = 7 * Scale, !.noiseScale = 33]
    /\ UNCHANGED <<animation, background, exportSettings, noiseTable, fileVars, seqExport,
                   statusTimers, looping>>
    /\ Forget
    /\ canvas' = updateCanvasSize(Store')
    /\ RedrawTwice

\* Shift+R: randomizeAll(), then onParamChange
ShiftR(c, r, cs, e) == RandomizeAll(c, r, cs, e)

\* the Reset to Default button: the resetToDefault() of the panel, then onParamChange and
\* onGridChange
ResetButton ==
    /\ grid' = [grid EXCEPT !.cols = MaxCols, !.rows = MaxRows, !.cellSize = 60 * Scale,
                            !.offsetX = 0, !.offsetY = 0, !.symmetry = "none",
                            !.symmetryCount = 6]
    /\ shape' = [shape EXCEPT !.size = 80, !.rotation = 0, !.rotationAuto = FALSE,
                              !.scaleMode = "linear", !.scaleMin = 20, !.scaleMax = 100,
                              !.fillMode = "solid", !.fillColor = DefaultShape.fillColor,
                              !.strokeMode = "none"]
    /\ pattern' = [pattern EXCEPT !.enabled = FALSE]
    /\ animation' = [animation EXCEPT !.enabled = FALSE, !.playing = FALSE]
    /\ palette' = [palette EXCEPT !.colors = DefaultPalette.colors]
    /\ UNCHANGED <<background, exportSettings, noiseTable, fileVars, seqExport,
                   statusTimers, looping>>
    /\ Forget
    /\ canvas' = updateCanvasSize(Store')
    /\ RedrawTwice

\* files the Import JSON button is given: text that does not parse, the text `null`,
\* documents whose palette.colors is a number (alone, and after a grid and a shape
\* section), and a document that applies
ImportFiles ==
    {Unparseable, NullDoc,
     [palette |-> [colors |-> NotIterable]],
     [grid |-> [cols |-> 1, cellSize |-> 10 * Scale], shape |-> [size |-> 55],
      palette |-> [colors |-> NotIterable],
      canvas |-> [background |-> <<"#", "2", "0", "2", "0", "4", "0">>]],
     [grid |-> [cols |-> 2, rows |-> 1, offsetX |-> 0 - 10 * Scale]]}

NextImport ==
    \/ \E doc \in ImportFiles : ImportJSON(doc)
    \/ \E v \in {1, MaxCols} : SetCols(v)
    \/ \E v \in OffsetsY : SetOffsetY(v)
    \/ \E name \in {"** Default **", "NeonCircles"} : LoadPreset(name)
    \/ RandomizeAll(MaxCols, MaxRows, 30 * Scale, FALSE)
    \/ ShiftR(2, 1, 89 * Scale, TRUE)
    \/ ResetButton

\* imports of files that apply, that fail before anything is applied and that fail
\* part-way, between uses of the grid controls, of the Load Preset list and of the
\* Randomize All and Reset to Default buttons
SpecImport == InitControls /\ [][NextImport]_vars

-----------------------------------------------------------------------------
(* The animation controls, the draw loop and the export paths *)

\* the handler onAnimationChange: p.loop() when playing, else p.noLoop() and p.redraw()
onAnimationChange ==
    IF animation'.playing
    THEN looping' = TRUE /\ UNCHANGED <<canvas, cells, frame, drawFailed, frameCount>>
    ELSE looping' = FALSE /\ Redraw /\ UNCHANGED canvas

\* an animation binding whose change handler is onAnimationChange
AnimationBinding(key, v) ==
    /\ animation[key] # v
    /\ animation' = [animation EXCEPT ![key] = v]
    /\ UNCHANGED <<grid, shape, pattern, exportSettings, palette, background, noiseTable,
                   fileVars, seqExport, statusTimers>>
    /\ Forget
    /\ onAnimationChange

\* the animation's Enable box
SetAnimationEnabled(v) == AnimationBinding("enabled", v)

\* the animation's Playing box
SetAnimationPlaying(v) == AnimationBinding("playing", v)

\* the animation's Loop (frames) slider (30..600), whose change handler is onParamChange
SetLoopDuration(v) ==
    /\ animation.loopDuration # v
    /\ animation' = [animation EXCEPT !.loopDuration = v]
    /\ UNCHANGED <<grid, shape, pattern, exportSettings, palette, background, noiseTable,
                   fileVars, seqExport, statusTimers>>
    /\ Forget
    /\ onParamChange

\* the largest frameCount the draw loop is followed to, in frames
MaxFrames == 1

\* one frame of the draw loop p.loop() started
Tick ==
    /\ looping
    /\ frameCount < MaxFrames * Scale
    /\ UNCHANGED <<cfgVars, fileVars, canvas, looping, exportVars, probe>>
    /\ Redraw

\* an export binding: it has no change handler
ExportBinding(key, v) ==
    /\ exportSettings[key] # v
    /\ exportSettings' = [exportSettings EXCEPT ![key] = v]
    /\ UNCHANGED <<grid, shape, pattern, animation, palette, background, noiseTable,
                   fileVars, drawVars, exportVars, probe>>

\* the export's Format list
SetExportFormat(v) == ExportBinding("format", v)

\* the export's Scale slider (1..4)
SetExportScale(v) == ExportBinding("scale", v)

\* formats of the Format list: the three export.js handles and one it does not
ExportFormats == {"png", "svg", "sequence", "webm"}

\* the largest export scale of the model (the slider offers 1..4)
MaxExportScale == 2

\* the loop length of the model, in frames (the slider offers 30..600, a preset any)
MaxLoopDuration == 2

\* the status line `Exporting ${k}/${totalFrames}...`
Progress(k, totalFrames) ==
    "Exporting " \o ToString(k) \o "/" \o ToString(totalFrames) \o "..."

\* what exportPNG draws and saves
exportPNG(st, es) ==
    [cs \in {getGridCells(st)} |->
        [format |-> "png", frame |-> 0, time |-> 0, scale |-> es.scale, cells |-> cs,
         shapes |-> exportPass(st, cs, es.scale, 0),
         threw |-> firstThrow(st, cs) <= Len(cs)]
    ][getGridCells(st)]

\* what exportSVG collects and downloads
exportSVG(st) ==
    [cs \in {getGridCells(st)} |->
        [format |-> "svg", frame |-> 0, time |-> 0, scale |-> 1, cells |-> cs,
         shapes |-> svgPass(st, cs),
         threw |-> firstThrow([st EXCEPT !.shape.blendMode = "blend"], cs) <= Len(cs)]
    ][getGridCells(st)]

\* one pass of exportSequence's loop reading animation.loopDuration anew instead of
\* the totalFrames taken when the export started
sequenceFrameLiveTotal(st, fr, totalFrames, scale) ==
    [cs \in {getGridCells(st)} |->
        [format |-> "sequence", frame |-> fr,
         time |-> RDiv(fr * Scale, st.animation.loopDuration),
         scale |-> scale, cells |-> cs,
         shapes |-> exportPass(st, cs, scale, RDiv(fr * Scale, st.animation.loopDuration)),
         threw |-> firstThrow(st, cs) <= Len(cs)]
    ][getGridCells(st)]

\* what one pass of exportSequence's loop draws and saves
sequenceFrame(st, fr, totalFrames, scale) ==
    [cs \in {getGridCells(st)} |->
        [format |-> "sequence", frame |-> fr, time |-> RDiv(fr * Scale, totalFrames),
         scale |-> scale, cells |-> cs,
         shapes |-> exportPass(st, cs, scale, RDiv(fr * Scale, totalFrames)),
         threw |-> firstThrow(st, cs) <= Len(cs)]
    ][getGridCells(st)]

\* the end of exportComposition: the status line and the timer that resets it
Finish(status) ==
    /\ exportSettings' = [exportSettings EXCEPT !.status = status]
    /\ statusTimers' = statusTimers + 1

\* the Export button: exportComposition(p, frameCount) up to its first timer
ClickExport ==
    /\ UNCHANGED <<grid, shape, pattern, animation, palette, background, noiseTable,
                   fileVars, drawVars, probe>>
    /\ CASE exportSettings.format = "svg" ->
                /\ \E e \in {exportSVG(Store)} :
                        IF e.threw THEN exported' = FailedExport /\ Finish("Error!")
                        ELSE exported' = e /\ Finish("Done!")
                /\ UNCHANGED seqExport
         [] exportSettings.format = "sequence" /\ ~animation.enabled ->
                /\ Finish("Done!")
                /\ UNCHANGED <<exported, seqExport>>
         [] exportSettings.format = "sequence" /\ animation.enabled
                                               /\ animation.loopDuration <= 0 ->
                /\ Finish("Done!")
                /\ UNCHANGED <<exported, seqExport>>
         [] exportSettings.format = "sequence" /\ animation.enabled
                                               /\ animation.loopDuration > 0 ->
                \E e \in {sequenceFrame(Store, 0, animation.loopDuration,
                                         exportSettings.scale)} :
                    IF e.threw
                    THEN exported' = FailedExport /\ Finish("Error!") /\ UNCHANGED seqExport
                    ELSE /\ exported' = e
                         /\ seqExport' =
                                Append(seqExport,
                                       [frame |-> 0, totalFrames |-> animation.loopDuration,
                                        scale |-> exportSettings.scale,
                                        saved |-> <<[frame |-> e.frame,
                                                     time |-> e.time]>>])
                         /\ exportSettings' =
                                [exportSettings EXCEPT
                                    !.status = Progress(1, animation.loopDuration)]
                         /\ UNCHANGED statusTimers
         [] OTHER ->
                /\ \E e \in {exportPNG(Store, exportSettings)} :
                        IF e.threw THEN exported' = FailedExport /\ Finish("Error!")
                        ELSE exported' = e /\ Finish("Done!")
                /\ UNCHANGED seqExport

\* the sequence without its k-th element
Without(seq, k) == [j \in 1..(Len(seq) - 1) |-> IF j < k THEN seq[j] ELSE seq[j + 1]]

\* the 10 ms timer of the k-th suspended exportSequence call fires: `frame++`, then
\* the next pass of its loop, or its end and the end of exportComposition
SeqResume(k) ==
    /\ k \in 1..Len(seqExport)
    /\ UNCHANGED <<grid, shape, pattern, animation, palette, background, noiseTable,
                   fileVars, drawVars, probe>>
    /\ LET run == seqExport[k]
       IN IF run.frame + 1 < run.totalFrames
          THEN \E e \in {sequenceFrame(Store, run.frame + 1, run.totalFrames,
                                        run.scale)} :
                    IF e.threw
                    THEN /\ exported' = FailedExport
                         /\ Finish("Error!")
                         /\ seqExport' = Without(seqExport, k)
                    ELSE /\ exported' = e
                         /\ seqExport' =
                                [seqExport EXCEPT
                                    ![k].frame = run.frame + 1,
                                    ![k].saved = Append(@, [frame |-> e.frame,
                                                            time |-> e.time])]
                         /\ exportSettings' =
                                [exportSettings EXCEPT
                                    !.status = Progress(run.frame + 2, run.totalFrames)]
                         /\ UNCHANGED statusTimers
          ELSE /\ Finish("Done!")
               /\ seqExport' = Without(seqExport, k)
               /\ UNCHANGED exported

\* a 2 s timer of exportComposition fires
StatusTimeout ==
    /\ statusTimers > 0
    /\ statusTimers' = statusTimers - 1
    /\ exportSettings' = [exportSettings EXCEPT !.status = "Ready"]
    /\ UNCHANGED <<grid, shape, pattern, animation, palette, background, noiseTable,
                   fileVars, drawVars, seqExport,
                   exported, probe>>

\* the grids of the render runs: a radial grid of count 4, a mirrored grid of 3 x 2 and
\* a doubly mirrored grid of 2 x 2
RenderGrids ==
    {[cols |-> 2, rows |-> 1, cellSize |-> 10 * Scale, offsetX |-> 0, offsetY |-> 0,
      symmetry |-> "radial", symmetryCount |-> 4],
     [cols |-> 3, rows |-> 2, cellSize |-> 10 * Scale, offsetX |-> 0,
      offsetY |-> 30 * Scale, symmetry |-> "horizontal", symmetryCount |-> 6],
     [cols |-> 2, rows |-> 2, cellSize |-> 20 * Scale, offsetX |-> 10 * Scale,
      offsetY |-> 0, symmetry |-> "both", symmetryCount |-> 6]}

\* the shapes of the render runs: the default one, and one turned by 45 degrees whose
\* rotation follows the distance
RenderShapes ==
    {DefaultShape, [DefaultShape EXCEPT !.rotation = 45 * Scale, !.rotateMode = "linear"]}

InitRender ==
    /\ grid \in RenderGrids
    /\ shape \in RenderShapes
    /\ pattern = DefaultPattern
    /\ animation = [DefaultAnimation EXCEPT !.loopDuration = MaxLoopDuration]
    /\ exportSettings = DefaultExportSettings
    /\ palette = DefaultPalette
    /\ background = DefaultBackground
    /\ noiseTable = 0
    /\ AfterSetup

NextRender ==
    \/ \E v \in BOOLEAN : SetAnimationEnabled(v)
    \/ \E v \in BOOLEAN : SetAnimationPlaying(v)
    \/ Tick
    \/ \E v \in ExportFormats : SetExportFormat(v)
    \/ \E v \in 1..MaxExportScale : SetExportScale(v)
    \/ (seqExport = <<>> /\ statusTimers = 0 /\ ClickExport)
    \/ \E k \in 1..Len(seqExport) : SeqResume(k)
    \/ StatusTimeout

\* the preview and the export paths under the animation and export controls; the
\* Export button is pressed when no earlier export is running or waits for its status
\* to be reset
SpecRender == InitRender /\ [][NextRender]_vars

\* the largest number of exportSequence calls suspended at once
MaxRunning == 2

\* the grid of the sequence runs
SequenceGrid ==
    [cols |-> 2, rows |-> 1, cellSize |-> 10 * Scale, offsetX |-> 0, offsetY |-> 0,
     symmetry |-> "none", symmetryCount |-> 6]

InitSequence ==
    /\ grid = SequenceGrid
    /\ shape = DefaultShape
    /\ pattern = DefaultPattern
    /\ animation = [DefaultAnimation EXCEPT !.loopDuration = MaxLoopDuration]
    /\ exportSettings = [DefaultExportSettings EXCEPT !.format = "sequence"]
    /\ palette = DefaultPalette
    /\ background = DefaultBackground
    /\ noiseTable = 0
    /\ AfterSetup

NextSequence ==
    \/ \E v \in BOOLEAN : SetAnimationEnabled(v)
    \/ \E v \in 1..MaxLoopDuration : SetLoopDuration(v)
    \/ \E v \in 1..MaxExportScale : (seqExport = <<>> /\ statusTimers = 0 /\ SetExportScale(v))
    \/ (Len(seqExport) < MaxRunning /\ statusTimers = 0 /\ ClickExport)
    \/ \E k \in 1..Len(seqExport) : SeqResume(k)
    \/ StatusTimeout

\* a direct call getAnimationTime(frameCount)
CallGetAnimationTime(fc) ==
    /\ \E r \in {getAnimationTime(Store, fc)} :
            probe' = [fn |-> "getAnimationTime", frameCount |-> fc, threw |-> r.threw,
                      result |-> r.value]
    /\ UNCHANGED <<cfgVars, fileVars, drawVars, exportVars>>

\* frame counts a direct call is made with: inside the first loop, one loop later, and
\* a fractional one
ProbeFrames == {0, 1 * Scale, (1 + MaxLoopDuration) * Scale, 150}

NextTime ==
    \/ \E v \in BOOLEAN : SetAnimationEnabled(v)
    \/ \E v \in BOOLEAN : SetAnimationPlaying(v)
    \/ (frameCount < MaxFrames * Scale /\ \E v \in 1..MaxLoopDuration : SetLoopDuration(v))
    \/ Tick
    \/ \E fc \in ProbeFrames : CallGetAnimationTime(fc)

\* direct calls of getAnimationTime and the draw loop under the animation controls; the
\* Loop slider, whose redraw advances frameCount while Playing is on, is followed up to
\* MaxFrames
SpecTime == InitRender /\ [][NextTime]_vars

\* handleFile(p, file) up to its await, for a file that is an SVG or an image
FileLoadStart(kind) ==
    /\ loading' = Append(loading, kind)
    /\ exportSettings' =
            [exportSettings EXCEPT
                !.status = IF kind = "svg" THEN "Loading SVG..." ELSE "Loading image..."]
    /\ UNCHANGED <<grid, shape, pattern, animation, palette, background, noiseTable,
                   savedJSON, userPresets, drawVars, exportVars, probe>>

\* the k-th suspended handleFile call resumes: the file was read (ok) or reading it
\* failed; window._p5Instance is never set, so no redraw follows; the status line is
\* written and a 2 s timer set that resets it
FileLoadEnd(k, ok) ==
    /\ k \in 1..Len(loading)
    /\ loading' = Without(loading, k)
    /\ exportSettings' =
            [exportSettings EXCEPT
                !.status = IF ~ok THEN "Error loading file"
                           ELSE IF loading[k] = "svg" THEN "SVG loaded!"
                           ELSE "Image loaded!"]
    /\ statusTimers' = statusTimers + 1
    /\ UNCHANGED <<grid, shape, pattern, animation, palette, background, noiseTable,
                   savedJSON, userPresets, drawVars, seqExport, exported, probe>>

\* the largest number of pending 2 s timers followed
MaxTimers == 2

InitStatus ==
    /\ grid = SequenceGrid
    /\ shape = DefaultShape
    /\ pattern = DefaultPattern
    /\ animation = [DefaultAnimation EXCEPT !.enabled = TRUE,
                                            !.loopDuration = MaxLoopDuration]
    /\ exportSettings = DefaultExportSettings
    /\ palette = DefaultPalette
    /\ background = DefaultBackground
    /\ noiseTable = 0
    /\ AfterSetup

\* a press of the Export button or a dropped file, while fewer than MaxRunning exports
\* and loads are suspended and fewer than MaxTimers timers pending
Begin ==
    /\ Len(seqExport) + Len(loading) < MaxRunning
    /\ statusTimers < MaxTimers
    /\ \/ ClickExport
       \/ \E kind \in {"svg", "image"} : FileLoadStart(kind)

NextStatus ==
    \/ \E v \in {"png", "sequence"} : SetExportFormat(v)
    \/ Begin
    \/ \E k \in 1..Len(seqExport) : SeqResume(k)
    \/ \E k \in 1..Len(loading), ok \in BOOLEAN : FileLoadEnd(k, ok)
    \/ StatusTimeout

\* exports and file loads started while others run; every timer and every file read
\* the browser has pending comes to its end
SpecStatus ==
    /\ InitStatus /\ [][NextStatus]_vars
    /\ WF_vars(StatusTimeout)
    /\ WF_vars(\E k \in 1..Len(seqExport) : SeqResume(k))
    /\ WF_vars(\E k \in 1..Len(loading), ok \in BOOLEAN : FileLoadEnd(k, ok))

\* sequence exports, up to MaxRunning of them at once, while the Loop slider and the
\* Enable box are used between their frames and the Scale slider before the first; the Export button is pressed when no
\* finished export waits for its status to be reset
SpecSequence == InitSequence /\ [][NextSequence]_vars

-----------------------------------------------------------------------------
(* Presets with mode values off their lists, drawn and exported *)

\* the entries of blendModeOptions the model uses
BlendModes == {"blend", "add", "multiply"}

\* documents setting each mode to a listed value and to values off its list: for the
\* blend mode another name and a value that is not a string
ModeDocs ==
    {[shape |-> [scaleMode |-> m]] : m \in {"linear", "easeIn", "bounce"}}
    \cup {[shape |-> [fillMode |-> m]] : m \in {"solid", "distance", "gradient"}}
    \cup {[grid |-> [symmetry |-> m]] : m \in {"none", "horizontal", "spiral"}}
    \cup {[shape |-> [blendMode |-> m]] : m \in {"blend", "add", "glow", "<number>"}}

NextModes ==
    \/ \E doc \in ModeDocs : ImportJSON(doc)
    \/ \E v \in {"png", "svg"} : SetExportFormat(v)
    \/ (seqExport = <<>> /\ statusTimers = 0 /\ ClickExport)
    \/ StatusTimeout

\* imports of mode values on and off their lists, each followed by its redraw, and
\* the PNG and SVG exports of what was imported
SpecModes == InitControls /\ [][NextModes]_vars

-----------------------------------------------------------------------------
(* Properties of the distance field and of the symmetry expander *)

\* the grid centre as the specification defines it
CentreX == RDiv(grid.cols * grid.cellSize, 2) + grid.offsetX
CentreY == RDiv(grid.rows * grid.cellSize, 2) + grid.offsetY

\* the base position of (row, col)
BaseX(col) == col * grid.cellSize + RDiv(grid.cellSize, 2) + grid.offsetX
BaseY(row) == row * grid.cellSize + RDiv(grid.cellSize, 2) + grid.offsetY

\* the half-diagonal of the grid's bounding box is 0
HalfDiagonalZero == grid.cols * grid.cellSize = 0 /\ grid.rows * grid.cellSize = 0

\* the grid has at least one column and one row and cells of positive size
RegularGrid == grid.cols >= 1 /\ grid.rows >= 1 /\ grid.cellSize > 0

\* the last direct call was getNormalizedDistance at (x, y)
ProbedAt(x, y) == probe.fn = "getNormalizedDistance" /\ probe.x = x /\ probe.y = y

\* the last direct call was made at a corner of the bounding box
ProbedAtCorner ==
    \E x \in {grid.offsetX, grid.offsetX + grid.cols * grid.cellSize},
       y \in {grid.offsetY, grid.offsetY + grid.rows * grid.cellSize} : ProbedAt(x, y)

\* C1: on a grid with cols >= 1, rows >= 1 and cellSize > 0, whatever the offsets,
\* getNormalizedDistance is 0 at the grid centre and 1 at each of the four corners
\* of the bounding box.
C1_CentreZeroCornersOne ==
    RegularGrid =>
        /\ ProbedAt(CentreX, CentreY) => probe.result = 0
        /\ ProbedAtCorner => probe.result = Scale

\* a corner of a grid with both offsets set has been measured
C1_Witness ==
    /\ RegularGrid /\ grid.offsetX # 0 /\ grid.offsetY # 0 /\ grid.cols # grid.rows
    /\ ProbedAtCorner
    /\ probe.result = Scale

\* C2: when the half-diagonal is 0, getNormalizedDistance returns 0 for every point
\* (never NaN or Infinity) and every cell getGridCells emits has dist = 0.
C2_DegenerateDistanceZero ==
    HalfDiagonalZero =>
        /\ probe.fn = "getNormalizedDistance" => probe.result = 0
        /\ \A k \in 1..Len(cells) : cells[k].dist = 0

\* the number of instances the expander emits per base cell
InstancesPerBase ==
    CASE grid.symmetry = "none"       -> 1
      [] grid.symmetry = "horizontal" -> 2
      [] grid.symmetry = "vertical"   -> 2
      [] grid.symmetry = "both"       -> 4
      [] grid.symmetry = "radial"     -> grid.symmetryCount
      [] OTHER                        -> 1

\* the symmetry is one of the five modes of the enumeration
KnownSymmetry == grid.symmetry \in {"none", "horizontal", "vertical", "both", "radial"}

\* the draw has stored one full group of instances per base cell
FullList == ~drawFailed /\ Len(cells) = InstancesPerBase * grid.cols * grid.rows

\* the j-th instance (1-based) of base cell (row, col)
Instance(row, col, j) == cells[(row * grid.cols + col) * InstancesPerBase + j]

\* C3: for cols*rows >= 1 base cells, getGridCells returns cols*rows cells under
\* 'none', twice as many under 'horizontal' and 'vertical', four times under 'both'
\* and symmetryCount times under 'radial'.
C3_InstanceCounts ==
    (~drawFailed /\ RegularGrid /\ KnownSymmetry) =>
        Len(cells) = InstancesPerBase * grid.cols * grid.rows

\* a radial grid of 3 x 2 base cells with three instances each
C3_Witness ==
    /\ grid.symmetry = "radial" /\ grid.symmetryCount = 3
    /\ grid.cols = 3 /\ grid.rows = 2 /\ grid.cellSize > 0
    /\ Len(cells) = 18

\* the instance is the original of base cell (row, col)
IsOriginalOf(c, row, col) ==
    c.x = BaseX(col) /\ c.y = BaseY(row) /\ c.col = col /\ c.row = row

\* the instance is the horizontal mirror of base cell (row, col)
IsMirrorH(c, row, col) ==
    /\ c.x = 2 * CentreX - BaseX(col) /\ c.y = BaseY(row)
    /\ c.col = grid.cols - 1 - col /\ c.row = row

\* the instance is the vertical mirror of base cell (row, col)
IsMirrorV(c, row, col) ==
    /\ c.x = BaseX(col) /\ c.y = 2 * CentreY - BaseY(row)
    /\ c.col = col /\ c.row = grid.rows - 1 - row

\* the instance is the horizontal and vertical mirror of base cell (row, col)
IsMirrorHV(c, row, col) ==
    /\ c.x = 2 * CentreX - BaseX(col) /\ c.y = 2 * CentreY - BaseY(row)
    /\ c.col = grid.cols - 1 - col /\ c.row = grid.rows - 1 - row

\* C4: under 'both' the instances of one base cell are, in order, the original, the
\* horizontal mirror, the vertical mirror and the horizontal+vertical mirror; in every
\* mode the first instance of a base cell is the only one with isOriginal = true.
C4_BothOrderAndOriginalFirst ==
    (~drawFailed /\ RegularGrid) =>
        /\ FullList
        /\ \A row \in 0..(grid.rows - 1), col \in 0..(grid.cols - 1) :
            /\ \A j \in 1..InstancesPerBase : Instance(row, col, j).isOriginal = (j = 1)
            /\ grid.symmetry = "both" =>
                /\ IsOriginalOf(Instance(row, col, 1), row, col)
                /\ IsMirrorH(Instance(row, col, 2), row, col)
                /\ IsMirrorV(Instance(row, col, 3), row, col)
                /\ IsMirrorHV(Instance(row, col, 4), row, col)

\* a 'both' grid whose first base cell has four instances at four different places
C4_Witness ==
    /\ grid.symmetry = "both" /\ grid.cols = 3 /\ grid.rows = 2 /\ FullList
    /\ Cardinality({<<cells[j].x, cells[j].y>> : j \in 1..4}) = 4
    /\ cells[1].isOriginal /\ ~cells[2].isOriginal

\* C5: under 'horizontal' the mirrored instance has x' = 2*center.x - x, y' = y,
\* col' = cols-1-col, row' = row; under 'vertical' it has x' = x, y' = 2*center.y - y,
\* col' = col, row' = rows-1-row; either way it carries the original's dist.
C5_MirrorFormulas ==
    (~drawFailed /\ RegularGrid /\ grid.symmetry \in {"horizontal", "vertical"}) =>
        /\ FullList
        /\ \A row \in 0..(grid.rows - 1), col \in 0..(grid.cols - 1) :
            /\ IsOriginalOf(Instance(row, col, 1), row, col)
            /\ grid.symmetry = "horizontal" => IsMirrorH(Instance(row, col, 2), row, col)
            /\ grid.symmetry = "vertical" => IsMirrorV(Instance(row, col, 2), row, col)
            /\ Instance(row, col, 2).dist = Instance(row, col, 1).dist

\* a horizontal grid with an offset whose first cell is mirrored into the last column
C5_Witness ==
    /\ grid.symmetry = "horizontal" /\ grid.cols = 3 /\ grid.offsetX # 0 /\ FullList
    /\ cells[2].col = 2 /\ cells[2].x > cells[1].x /\ cells[2].dist = cells[1].dist
    /\ cells[1].dist > 0

\* the tolerance of a position computed through sines and cosines
PosTolerance == Scale \div 10

\* a and b differ by no more than the tolerance
Near(a, b) == Abs(a - b) <= PosTolerance

\* the instance sits where base cell (row, col) lands when turned by i * 360 / n
\* degrees about the centre
IsTurnOf(c, row, col, i, n) ==
    LET dx == BaseX(col) - CentreX
        dy == BaseY(row) - CentreY
        cosA == MathCos(RDiv(2 * Pi * i, n))
        sinA == MathSin(RDiv(2 * Pi * i, n))
    IN /\ Near(c.x, CentreX + RDiv(dx * cosA - dy * sinA, TrigScale))
       /\ Near(c.y, CentreY + RDiv(dx * sinA + dy * cosA, TrigScale))

\* base cell (row, col) is not at the grid centre
OffCentre(row, col) == BaseX(col) # CentreX \/ BaseY(row) # CentreY

\* C6: under 'radial' with symmetryCount = n an off-centre base cell yields n
\* instances: the original and, for i = 1..n-1, a copy at the original's position
\* turned about the centre by i*360/n degrees, with the original's col, row and dist
\* and a rotation tag of i*360/n; for n = 4 the copies are a quarter, a half and
\* three quarters of a turn away at the same radius.
C6_RadialCopies ==
    (~drawFailed /\ RegularGrid /\ grid.symmetry = "radial") =>
        /\ FullList
        /\ \A row \in 0..(grid.rows - 1), col \in 0..(grid.cols - 1) :
            OffCentre(row, col) =>
                /\ IsOriginalOf(Instance(row, col, 1), row, col)
                /\ \A i \in 1..(grid.symmetryCount - 1) :
                    /\ IsTurnOf(Instance(row, col, i + 1), row, col, i, grid.symmetryCount)
                    /\ Instance(row, col, i + 1).col = col
                    /\ Instance(row, col, i + 1).row = row
                    /\ Instance(row, col, i + 1).dist = Instance(row, col, 1).dist
                    /\ Instance(row, col, i + 1).rotation * grid.symmetryCount
                            = 360 * i * Scale
                /\ grid.symmetryCount = 4 =>
                    /\ Near(Instance(row, col, 2).x, CentreX - (BaseY(row) - CentreY))
                    /\ Near(Instance(row, col, 2).y, CentreY + (BaseX(col) - CentreX))
                    /\ Near(Instance(row, col, 3).x, CentreX - (BaseX(col) - CentreX))
                    /\ Near(Instance(row, col, 3).y, CentreY - (BaseY(row) - CentreY))
                    /\ Near(Instance(row, col, 4).x, CentreX + (BaseY(row) - CentreY))
                    /\ Near(Instance(row, col, 4).y, CentreY - (BaseX(col) - CentreX))

\* a radial grid of count 4 whose first base cell is off-centre and has copies tagged
\* 90, 180 and 270 degrees
C6_Witness ==
    /\ grid.symmetry = "radial" /\ grid.symmetryCount = 4 /\ grid.cols = 2 /\ FullList
    /\ OffCentre(0, 0)
    /\ cells[2].rotation = 90 * Scale /\ cells[3].rotation = 180 * Scale
    /\ cells[4].rotation = 270 * Scale
    /\ cells[2].x # cells[1].x

-----------------------------------------------------------------------------
(* Properties of the Size Mapper *)

\* the last direct call was getShapeSize
SizeProbed == probe.fn = "getShapeSize"

\* cellSize * shape.size
BaseSize == Mul(grid.cellSize, shape.size)

\* scaleMin + (scaleMax - scaleMin) * (1 - dist)
LinearScale(dist) ==
    Add(shape.scaleMin, Mul(Sub(shape.scaleMax, shape.scaleMin), Sub(Scale, dist)))

\* the grid and scale range of the 1 x 1 scenario
OneCellScenario ==
    /\ grid.cols = 1 /\ grid.rows = 1 /\ grid.cellSize = 10 * Scale * 10
    /\ grid.symmetry = "none"
    /\ shape.scaleMode = "linear" /\ shape.scaleMin = 20 /\ shape.scaleMax = Scale
    /\ ~pattern.enabled

\* C9: with the pattern disabled and scaleMode 'linear',
\* getShapeSize(dist) = cellSize * shape.size * (scaleMin + (scaleMax - scaleMin) *
\* (1 - dist)); on the 1 x 1 grid of cell size 100 with scaleMin 0.2 and scaleMax 1 the
\* single cell has dist 0 and is drawn with size 100 * shape.size.
C9_LinearSize ==
    /\ (SizeProbed /\ ~pattern.enabled /\ shape.scaleMode = "linear") =>
            probe.result = Mul(BaseSize, LinearScale(probe.dist))
    /\ (OneCellScenario /\ ~drawFailed) =>
            /\ Len(cells) = 1 /\ Len(frame) = 1
            /\ cells[1].dist = 0
            /\ frame[1].size = Mul(10 * Scale * 10, shape.size)

\* the 1 x 1 scenario drawn with a size other than the default, and a call between
\* centre and edge answered
C9_Witness ==
    /\ OneCellScenario /\ ~drawFailed /\ shape.size = 55
    /\ Len(frame) = 1 /\ frame[1].size = 55 * Scale
    /\ SizeProbed /\ probe.dist = 37 /\ probe.result = Mul(55 * Scale, 20 + 50)

\* the size getShapeSize returns for the last call's arguments with the pattern off
SizePatternOff ==
    getShapeSize([Store EXCEPT !.pattern.enabled = FALSE], probe.dist, probe.time)

\* the sample the last call's arguments select
ProbeNoise ==
    noise2D(Store,
            Add(Mul(Mul(probe.dist, pattern.noiseScale), 10 * Scale), pattern.seed),
            Add(Mul(probe.time, pattern.noiseScale), pattern.seed))

\* the rounding of the two products of getShapeSize, doubled
SizeTolerance == RDiv(BaseSize, Scale) + 2

\* C10: with the pattern enabled getShapeSize multiplies the distance-based scale by
\* 0.5 + patternVal * 0.5, patternVal = (noise + 1) / 2 with noise in [-1, 1]; so the
\* size lies between 0.5 and 1 times the size with the pattern disabled.
C10_PatternFactor ==
    (SizeProbed /\ pattern.enabled) =>
        /\ ProbeNoise >= 0 - Scale /\ ProbeNoise <= Scale
        /\ probe.result =
              Mul(BaseSize,
                  Mul(calculateScale(Store, probe.dist),
                      Add(Scale \div 2,
                          Mul(Mul(Add(ProbeNoise, Scale), Scale \div 2), Scale \div 2))))
        /\ probe.result <= SizePatternOff
        /\ 2 * probe.result + SizeTolerance >= SizePatternOff

\* a size below the one scaleMin gives: the result is not clamped to the scale range
C10_Witness ==
    /\ SizeProbed /\ pattern.enabled
    /\ shape.scaleMode = "linear" /\ shape.scaleMin = 20 /\ shape.scaleMax = Scale
    /\ probe.result > 0
    /\ probe.result < Mul(BaseSize, shape.scaleMin)
    /\ ProbeNoise < 0

-----------------------------------------------------------------------------
(* Properties of the callers: what the preview and the exports draw *)

\* an export pass of the current configuration is on record
Exported == exported.format # "none"

\* the cell carries the rotation tag of a radial copy
Tagged(c) == "rotation" \in DOMAIN c

\* the Rotation Mapper's result for the cell at the given time
MapperRotation(c, time) == getShapeRotation(Store, c.dist, shape.rotation, time)

\* no term of the animation is added to the rotation of an export
NoAnimatedRotation == ~(animation.enabled /\ animation.animateRotation)

\* C7: for every radial copy, the rotation the shape is drawn with, in the live
\* preview and in every export path, is the Rotation Mapper's result plus the copy's
\* rotation tag i*360/symmetryCount.
C7_TagAddedToDrawnRotation ==
    /\ ~drawFailed =>
            \A k \in 1..Len(frame) :
                Tagged(cells[k]) =>
                    frame[k].rotation = Add(MapperRotation(cells[k], 0), cells[k].rotation)
    /\ (Exported /\ NoAnimatedRotation) =>
            \A k \in 1..Len(exported.shapes) :
                Tagged(exported.cells[k]) =>
                    exported.shapes[k].rotation
                        = Add(MapperRotation(exported.cells[k], exported.time),
                              exported.cells[k].rotation)

\* the list holds, base cell after base cell in row-major order, the instances of each
\* base cell together: the original at the base position first, then the copies, which
\* share its dist
RowMajor(cs) ==
    /\ Len(cs) = InstancesPerBase * grid.cols * grid.rows
    /\ \A row \in 0..(grid.rows - 1), col \in 0..(grid.cols - 1) :
        LET first == (row * grid.cols + col) * InstancesPerBase + 1
        IN /\ cs[first].isOriginal
           /\ cs[first].x = BaseX(col) /\ cs[first].y = BaseY(row)
           /\ cs[first].col = col /\ cs[first].row = row
           /\ \A j \in 1..(InstancesPerBase - 1) :
                ~cs[first + j].isOriginal /\ cs[first + j].dist = cs[first].dist

\* the pass drew the cells of the list in order, at the given scale, and handed each
\* its position in the list (from 0) as the index of getFillColor and getStrokeColor
IndexIsPosition(shapes, cs, scale) ==
    /\ Len(shapes) = Len(cs)
    /\ \A k \in 1..Len(shapes) :
        /\ shapes[k].x = cs[k].x * scale /\ shapes[k].y = cs[k].y * scale
        /\ shapes[k].fillArgs.dist = cs[k].dist
        /\ shapes[k].fillArgs.index = k - 1
        /\ shapes[k].strokeArgs.index = k - 1

\* C8: getGridCells emits the base cells in row-major order, each base cell's
\* instances contiguous, the base position being x = col*cellSize + cellSize/2 +
\* offsetX, y = row*cellSize + cellSize/2 + offsetY; the index passed to getFillColor
\* and getStrokeColor, in the preview and in every export, is the cell's position in
\* this sequence.
C8_RowMajorAndIndex ==
    /\ ~drawFailed => RowMajor(cells) /\ IndexIsPosition(frame, cells, 1)
    /\ Exported =>
            /\ RowMajor(exported.cells)
            /\ IndexIsPosition(exported.shapes, exported.cells, exported.scale)

\* the second frame of a sequence export of the 2 x 2 grid at twice the size, with the
\* preview of the same grid on screen
C8_Witness ==
    /\ grid.cols = 2 /\ grid.rows = 2 /\ grid.symmetry = "both"
    /\ ~drawFailed /\ Len(frame) = 16 /\ frame[16].fillArgs.index = 15
    /\ Exported /\ exported.format = "sequence" /\ exported.frame = 1
    /\ exported.scale = 2
    /\ Len(exported.shapes) = 16 /\ exported.shapes[6].fillArgs.index = 5
    /\ exported.cells[5].col = 1 /\ exported.cells[5].row = 0

-----------------------------------------------------------------------------
(* Properties of the Rotation Mapper *)

\* the last direct call was getShapeRotation
RotationProbed == probe.fn = "getShapeRotation"

\* the easing the rotation mode selects, applied to t
RotateEase(t) ==
    CASE shape.rotateMode = "easeIn"  -> Mul(t, t)
      [] shape.rotateMode = "easeOut" -> Sub(Scale, Mul(Sub(Scale, t), Sub(Scale, t)))
      [] OTHER                        -> t

\* baseRotation, or baseRotation + rotateMin + (rotateMax - rotateMin) * ease(1 - dist)
DistanceRotation(dist, baseRotation) ==
    IF shape.rotateMode = "none" THEN baseRotation
    ELSE Add(Add(baseRotation, shape.rotateMin),
             Mul(Sub(shape.rotateMax, shape.rotateMin), RotateEase(Sub(Scale, dist))))

\* C11: getShapeRotation returns baseRotation when rotateMode is 'none', otherwise
\* baseRotation + rotateMin + (rotateMax - rotateMin) * ease(1 - dist); with
\* rotationAuto it adds time * 360 * rotationSpeed, and without rotationAuto the
\* result does not depend on time.
C11_RotationMapper ==
    RotationProbed =>
        probe.result =
            IF shape.rotationAuto
            THEN Add(DistanceRotation(probe.dist, probe.baseRotation),
                     Mul(Mul(probe.time, 360 * Scale), shape.rotationSpeed))
            ELSE DistanceRotation(probe.dist, probe.baseRotation)

\* a call at a quarter of the loop with easeIn, a range of 10..90 degrees and no auto
\* rotation, answered without a time term
C11_Witness ==
    /\ RotationProbed /\ ~shape.rotationAuto /\ shape.rotateMode = "easeIn"
    /\ shape.rotateMin = 10 * Scale /\ shape.rotateMax = 90 * Scale
    /\ probe.time = 25 /\ probe.dist = 37 /\ probe.baseRotation = 45 * Scale
    /\ probe.result = 45 * Scale + 10 * Scale + Mul(80 * Scale, 40)

-----------------------------------------------------------------------------
(* Properties of the Fill/Stroke Color Mapper *)

\* the last direct call was getFillColor
FillProbed == probe.fn = "getFillColor"

\* the last direct call was getStrokeColor
StrokeProbed == probe.fn = "getStrokeColor"

\* the number of colours of the palette
N == Len(palette.colors)

\* C12: in fill mode 'distance' with a palette of at least two colours, getFillColor
\* returns exactly colors[0] at dist = 0 and exactly colors[N-1] at dist = 1.
C12_GradientEndsExact ==
    (FillProbed /\ shape.fillMode = "distance" /\ N >= 2) =>
        /\ probe.dist = 0 => probe.result = palette.colors[1]
        /\ probe.dist = Scale => probe.result = palette.colors[N]

\* C13: in fill mode 'palette' with at least one colour, getFillColor(dist, i) is
\* colors[i mod N] and equals getFillColor(dist, i + N), for every index, distance
\* and time.
C13_PaletteCycle ==
    (FillProbed /\ shape.fillMode = "palette" /\ N >= 1) =>
        /\ probe.result = palette.colors[(probe.index % N) + 1]
        /\ getFillColor(Store, probe.dist, probe.index + N, probe.time) = probe.result

\* a call past the end of a two-colour palette, away from the centre and at a time
\* other than 0
C13_Witness ==
    /\ FillProbed /\ shape.fillMode = "palette" /\ N = 2
    /\ probe.index = 5 /\ probe.dist = 37 /\ probe.time = 25
    /\ probe.result = palette.colors[2]

\* C14: in fill mode 'random' with five colours, getFillColor(dist, index) is
\* colors[(index * 7) mod 5] for every index in 0..20, whatever dist and time.
C14_RandomByIndex ==
    (FillProbed /\ shape.fillMode = "random" /\ N = 5 /\ probe.index \in 0..20) =>
        probe.result = palette.colors[((probe.index * 7) % 5) + 1]

\* index 3 of the five default colours answers with colors[1]
C14_Witness ==
    /\ FillProbed /\ shape.fillMode = "random" /\ N = 5
    /\ probe.index = 3 /\ probe.dist = Scale /\ probe.time = 25
    /\ probe.result = palette.colors[2] /\ probe.result # palette.colors[4]

\* C15: getStrokeColor(dist, index) is null for strokeMode 'none', shape.strokeColor
\* for 'solid', and for every other stroke mode getFillColor(dist, index, 0).
C15_StrokeDelegates ==
    StrokeProbed =>
        probe.result =
            CASE shape.strokeMode = "none"  -> Null
              [] shape.strokeMode = "solid" -> shape.strokeColor
              [] OTHER -> getFillColor(Store, probe.dist, probe.index, 0)

\* a stroke of mode Match Fill over a distance gradient, away from the centre, which
\* differs from the colour of the centre
C15_Witness ==
    /\ StrokeProbed /\ shape.strokeMode = "distance" /\ shape.fillMode = "distance"
    /\ probe.dist = 37 /\ N >= 2
    /\ probe.result = DistanceGradient(palette.colors, 37)
    /\ probe.result # DistanceGradient(palette.colors, 0)

-----------------------------------------------------------------------------
(* Properties of the mode fallbacks *)

\* the state with each mode that is off its list replaced by the default of its kind
Normal ==
    [Store EXCEPT
        !.shape.scaleMode = IF @ \in ScaleModes THEN @ ELSE "linear",
        !.shape.fillMode = IF @ \in FillModes THEN @ ELSE "solid",
        !.shape.blendMode = IF @ \in BlendModes THEN @ ELSE "blend",
        !.grid.symmetry = IF @ \in Symmetries \ {"spiral"} THEN @ ELSE "none"]

\* some mode is off its list
SomeModeUnknown == Normal # Store

\* nothing failed, and the preview and the last export show what the defaults would
ModesDegrade ==
    /\ ~drawFailed
    /\ exported # FailedExport
    /\ cells = getGridCells(Normal)
    /\ frame = previewPass(Normal, cells, 0)
    /\ Exported =>
            exported.shapes = IF exported.format = "svg"
                              THEN svgPass(Normal, exported.cells)
                              ELSE exportPass(Normal, exported.cells, exported.scale, 0)

\* C16: a mode value outside its enumeration never causes a failure: an unknown
\* scaleMode scales as 'linear', an unknown fillMode fills with shape.fillColor, an
\* unknown symmetry emits only the original cells, and an unknown blendMode draws
\* with BLEND, in the preview and in the exports.
C16_UnknownModesDegrade == SomeModeUnknown => ModesDegrade

\* the fallbacks for mode values that are strings: an unknown name of any of the four
\* modes draws and exports as the default does
StringModesDegrade == (SomeModeUnknown /\ shape.blendMode \notin NotStrings) => ModesDegrade

\* every mode off its list at once, all strings, drawn and exported as SVG
AllModesUnknownExported ==
    /\ shape.scaleMode = "bounce" /\ shape.fillMode = "gradient"
    /\ grid.symmetry = "spiral" /\ shape.blendMode = "glow"
    /\ Exported /\ exported.format = "svg" /\ Len(exported.shapes) = MaxCols * MaxRows

-----------------------------------------------------------------------------
(* Properties of the presets *)

\* the last change of the configuration was the import of the file Export JSON wrote
SavedImported ==
    savedJSON # NoFile /\ probe.fn = "importState" /\ probe.json = savedJSON.text

\* importState returned true and the state is the one the file was taken in
Restored ==
    /\ probe.returned
    /\ grid = savedJSON.S.grid
    /\ shape = savedJSON.S.shape
    /\ pattern = savedJSON.S.pattern
    /\ animation = savedJSON.S.animation
    /\ palette.colors = savedJSON.S.palette.colors
    /\ background = savedJSON.S.canvas.background

\* C17: round trip: when j = exportCurrentState() was taken in state S, then after any
\* later edits, preset loads and resets importState(j) returns true and every field
\* of grid, shape, pattern and animation, the palette colours and canvas.background
\* equal their values in S.
C17_RoundTrip == SavedImported => Restored

\* the round trip of files taken while every element of the palette was a colour
RoundTripOfFullPalette ==
    (SavedImported /\ \A k \in 1..Len(savedJSON.S.palette.colors) :
                            savedJSON.S.palette.colors[k] # Undefined) => Restored

\* a file taken with fill mode 'palette' and another background, imported after a reset
RoundTripAfterReset ==
    /\ SavedImported /\ Restored
    /\ shape.fillMode = "palette" /\ background # DefaultBackground
    /\ Len(palette.colors) = 2

\* the preset a load has just applied, none for the entry '** Default **'
LoadedPreset(pr) ==
    IF pr.fn = "importState" THEN pr.json
    ELSE IF pr.fn = "loadPreset" /\ pr.name # "** Default **" THEN presetNamed(pr.name)
    ELSE [none |-> TRUE]

\* a preset was loaded
IsLoad(pr) == "none" \notin DOMAIN LoadedPreset(pr)

\* the keys a preset names in one of its sections
Named(preset, section) ==
    IF section \in DOMAIN preset THEN DOMAIN preset[section] ELSE {}

\* the fields of an object that are not among the named keys have kept their values
Kept(before, after, named) ==
    \A f \in DOMAIN before \ named : f \in DOMAIN after /\ after[f] = before[f]

\* the fields of grid, shape, pattern, animation and palette, and canvas.background,
\* that the loaded preset does not name are as before the load
StoredFieldsKept ==
    /\ Kept(grid, grid', Named(LoadedPreset(probe'), "grid"))
    /\ Kept(shape, shape', Named(LoadedPreset(probe'), "shape"))
    /\ Kept(pattern, pattern', Named(LoadedPreset(probe'), "pattern"))
    /\ Kept(animation, animation', Named(LoadedPreset(probe'), "animation"))
    /\ Kept(palette, palette', Named(LoadedPreset(probe'), "palette"))
    /\ Kept([background |-> background], [background |-> background'],
            Named(LoadedPreset(probe'), "canvas"))

-----------------------------------------------------------------------------
(* Properties of the export phases *)

\* an exportComposition call has started and not completed: its exportSequence waits
\* for the timer between two frames
ExportInFlight == seqExport # <<>>

\* C19: the animation loop and export are mutually exclusive phases: between the start
\* of an exportComposition call and its completion, the waits between the frames of a
\* sequence export included, no frame of the draw loop runs and frameCount does not
\* advance.
C19_NoDrawDuringExport ==
    [][ExportInFlight => (~Tick /\ frameCount' = frameCount)]_vars

\* C20: with export format 'webm' the first Export starts a recording without saving
\* a still image, and the second Export ends it.
C20_WebmStartsRecording ==
    [][(exportSettings.format = "webm" /\ seqExport = <<>> /\ statusTimers = 0
        /\ ClickExport) => exported'.format \notin {"png", "failed"}]_vars

-----------------------------------------------------------------------------
(* Properties of the pattern's intensity *)

\* every position of the Intensity slider (0..1 in steps of 0.05)
IntensitySteps == {5 * k : k \in 0..20}

\* the size getShapeSize returns for the last call's arguments in the configuration
\* that differs from the current one only in noiseIntensity
SizeAtIntensity(v) ==
    getShapeSize([Store EXCEPT !.pattern.noiseIntensity = v], probe.dist, probe.time)

\* C21: pattern.noiseIntensity influences the noise modulation of shape size: for a
\* call getShapeSize(dist, time) answered with the pattern enabled there is a
\* configuration differing only in noiseIntensity (same dist, time and noise sample)
\* for which getShapeSize returns a different value.
C21_IntensityInfluencesSize ==
    (SizeProbed /\ pattern.enabled) =>
        \E v \in IntensitySteps : SizeAtIntensity(v) # probe.result

\* getShapeSize never reads noiseIntensity: no position of the slider changes the
\* answer to any call, with the pattern on or off
NoiseIntensityIgnored ==
    SizeProbed => \A v \in IntensitySteps : SizeAtIntensity(v) = probe.result

\* a call answered with the pattern enabled after the Intensity slider was moved to 1,
\* the sample being other than the middle one
IntensityMovedAndProbed ==
    /\ SizeProbed /\ pattern.enabled /\ pattern.noiseIntensity = Scale
    /\ probe.result # SizePatternOff


-----------------------------------------------------------------------------
(* The export paths against the live preview *)

\* what the preview's drawCell gives the k-th exported cell at the export's time
PreviewOf(k) == previewDrawCell(Store, exported.cells[k], k - 1, exported.time)

\* the k-th exported shape has the preview's size, times the export scale and up to the
\* rounding of one product, and the preview's rotation
SameRenderParameters(k) ==
    \E pv \in {PreviewOf(k)} :
        /\ Abs(exported.shapes[k].size - pv.size * exported.scale) <= exported.scale
        /\ exported.shapes[k].rotation = pv.rotation

\* C22: for the same configuration, cell, index and animation time, every export path
\* gives a cell the render parameters of the live preview: the size of PNG and sequence
\* export divided by the export scale, and the size of SVG export, equal the preview's
\* size, and the exported rotation equals the preview's rotation.
C22_ExportsMatchPreview ==
    Exported => \A k \in 1..Len(exported.shapes) : SameRenderParameters(k)

\* the PNG path with the animation disabled is the one that agrees with the preview
StillPNGMatchesPreview ==
    (Exported /\ exported.format = "png" /\ ~animation.enabled) =>
        \A k \in 1..Len(exported.shapes) : SameRenderParameters(k)

\* an SVG export whose sizes are the preview's sizes multiplied by shape.size again
SVGSizedTwice ==
    /\ Exported /\ exported.format = "svg" /\ ~animation.enabled /\ ~drawFailed
    /\ Len(exported.shapes) = Len(frame) /\ Len(frame) > 0
    /\ \A k \in 1..Len(frame) :
            /\ exported.shapes[k].size = Mul(frame[k].size, shape.size)
            /\ exported.shapes[k].size # frame[k].size

\* a PNG export at twice the size with the animation disabled
StillPNGExported ==
    /\ Exported /\ exported.format = "png" /\ exported.scale = 2 /\ ~animation.enabled
    /\ Len(exported.shapes) > 0 /\ exported.shapes[1].size = 2 * frame[1].size


-----------------------------------------------------------------------------
(* Reset to the default state *)

\* the last handler was the Load Preset list choosing '** Default **', and loadPreset
\* returned true
DefaultLoaded == probe.fn = "loadPreset" /\ probe.name = "** Default **"

\* the grid of state.js at program start, cut to the model's columns and rows
DefaultGrid ==
    [cols |-> MaxCols, rows |-> MaxRows, cellSize |-> 60 * Scale, offsetX |-> 0,
     offsetY |-> 0, symmetry |-> "none", symmetryCount |-> 6]

\* C23: loadPreset('** Default **') resets to the default state: whatever preset loads,
\* imports and edits preceded it, it returns true and afterwards every field of grid,
\* shape, pattern and animation, the palette colours and canvas.background equal their
\* values at program start.
C23_DefaultRestoresInitialState ==
    DefaultLoaded =>
        /\ grid = DefaultGrid
        /\ shape = DefaultShape
        /\ pattern = DefaultPattern
        /\ animation = DefaultAnimation
        /\ palette.colors = DefaultPalette.colors
        /\ background = DefaultBackground

\* the fields resetToDefault assigns
ResetFields ==
    [grid |-> DOMAIN DefaultGrid,
     shape |-> {"size", "rotation", "rotationAuto", "scaleMode", "scaleMin", "scaleMax",
                "fillMode", "fillColor", "strokeMode", "blendMode"},
     pattern |-> {"enabled", "seed", "noiseScale", "noiseIntensity"},
     animation |-> {"enabled", "playing", "speed", "loopDuration"}]

\* the fields resetToDefault assigns, the palette colours and the background do have
\* their values at program start after the load
AssignedFieldsRestored ==
    DefaultLoaded =>
        /\ \A k \in ResetFields.grid : grid[k] = DefaultGrid[k]
        /\ \A k \in ResetFields.shape : shape[k] = DefaultShape[k]
        /\ \A k \in ResetFields.pattern : pattern[k] = DefaultPattern[k]
        /\ \A k \in ResetFields.animation : animation[k] = DefaultAnimation[k]
        /\ palette.colors = DefaultPalette.colors
        /\ background = DefaultBackground

\* '** Default **' loaded after the Rotation Speed slider was moved and a document
\* setting shape.rotateMode was imported: both are kept
DefaultLoadedModeKept ==
    /\ DefaultLoaded /\ shape.rotateMode = "easeIn" /\ shape.scaleMin = 20
    /\ shape.rotationSpeed = 0 - 120
    /\ grid = DefaultGrid /\ background = DefaultBackground


-----------------------------------------------------------------------------
(* The frames of a sequence export *)

\* the Export button is pressed with the format 'sequence'
SequenceClicked == exportSettings.format = "sequence" /\ ClickExport

\* frames 0..n-1 of a loop of total frames, frame k at time k / total
FramesUpTo(n, total) ==
    [j \in 1..n |-> [frame |-> j - 1, time |-> RDiv((j - 1) * Scale, total)]]

\* the step is the end of the k-th suspended exportSequence call
Finishes(k) ==
    /\ k \in 1..Len(seqExport)
    /\ seqExport[k].frame + 1 >= seqExport[k].totalFrames
    /\ SeqResume(k)

\* the step saves one more frame of the k-th suspended exportSequence call
SavesNext(k) ==
    /\ k \in 1..Len(seqExport)
    /\ seqExport[k].frame + 1 < seqExport[k].totalFrames
    /\ SeqResume(k)

-----------------------------------------------------------------------------
(* The animation time *)

\* the last direct call was getAnimationTime
TimeProbed == probe.fn = "getAnimationTime"

\* (frameCount mod loopDuration) / loopDuration, frameCount being held in hundredths
LoopPhase(fc) ==
    RDiv((fc % (animation.loopDuration * Scale)) * Scale, animation.loopDuration * Scale)

\* C25: getAnimationTime(frameCount) returns 0 when animation is disabled, and
\* otherwise (frameCount mod loopDuration) / loopDuration, a value in [0, 1) that is the
\* same one loopDuration later; this is the time the draw loop passes to the mappers.
C25_AnimationTime ==
    /\ TimeProbed =>
            /\ ~probe.threw
            /\ probe.result = IF animation.enabled THEN LoopPhase(probe.frameCount) ELSE 0
            /\ 0 <= probe.result /\ probe.result < Scale
            /\ probe.result = IF animation.enabled
                              THEN LoopPhase(probe.frameCount + animation.loopDuration * Scale)
                              ELSE 0
    /\ (animation.enabled /\ animation.loopDuration > 0) =>
            /\ ~drawFailed
            /\ \A k \in 1..Len(frame) : frame[k].fillArgs.time = LoopPhase(frameCount)

\* getAnimationTime throws on every call, with the animation enabled or disabled, and
\* p.draw, which calls it only when the animation is enabled, then draws nothing (with
\* the loop running the canvas shows the last draw until the next frame)
TimeAlwaysThrows ==
    /\ TimeProbed => probe.threw
    /\ (animation.enabled /\ ~looping) => drawFailed /\ frame = <<>>
    /\ (~animation.enabled /\ ~looping) => ~drawFailed

\* a call made one loop after the start with the animation enabled
TimeProbedEnabled ==
    /\ TimeProbed /\ animation.enabled /\ probe.frameCount = (1 + MaxLoopDuration) * Scale
    /\ animation.loopDuration = 1


-----------------------------------------------------------------------------
(* Failed imports *)

\* the step is the Import JSON button given a file for which importState returns false
ImportFails ==
    \E doc \in ImportFiles : ImportJSON(doc) /\ ~probe'.returned

\* C26: importState is all-or-nothing: whenever importState(json) returns false
\* (unparseable text, or parsed data that makes applying it fail part-way), grid, shape,
\* pattern, animation, palette and canvas are all unchanged from before the call.
C26_ImportAllOrNothing ==
    [][ImportFails =>
            UNCHANGED <<grid, shape, pattern, animation, palette, background, canvas>>]_vars

\* an import that fails before applyPreset is entered, or at the palette of a document
\* with no section before it, leaves everything as it was
EarlyFailureChangesNothing ==
    [][\A doc \in ImportFiles :
            (ImportJSON(doc) /\ ~probe'.returned
                /\ DOMAIN doc \cap {"grid", "shape", "pattern", "animation"} = {}) =>
              UNCHANGED <<grid, shape, pattern, animation, palette, background, canvas>>]_vars

\* importState returned false, having written the grid and shape sections of the file;
\* the palette, the background and the canvas size are those of before
HalfImported ==
    /\ probe.fn = "importState" /\ ~probe.returned
    /\ "grid" \in DOMAIN probe.json
    /\ grid.cols = 1 /\ grid.cellSize = 10 * Scale /\ shape.size = 55
    /\ palette = DefaultPalette /\ background = DefaultBackground
    /\ canvas.width = MaxCols * 60 * Scale


-----------------------------------------------------------------------------
(* User presets *)

\* the last handler was the Load Preset list choosing a name a user preset is stored
\* under, and loadPreset returned true
UserPresetLoaded == probe.fn = "loadPreset" /\ probe.name \in DOMAIN userPresets

\* the step is not Save as User Preset
NoSave == \A name \in UserPresetNames : ~SaveUserPreset(name)

\* C27: user presets are snapshots: for every name, after saveUserPreset(name) in state
\* S and any later edits, loads and saves under other names, loadPreset(name) returns
\* true and restores grid, shape, pattern, animation, the palette colours and
\* canvas.background to their values in S; later edits of the live state never alter a
\* stored user preset or a built-in preset.
C27_UserPresetsAreSnapshots ==
    [][/\ UserPresetLoaded' => Snapshot' = userPresets'[probe'.name]
       /\ NoSave => userPresets' = userPresets
       /\ \A name \in UserPresetNames :
            SaveUserPreset(name) =>
                /\ userPresets'[name] = Snapshot
                /\ \A n \in DOMAIN userPresets \ {name} : userPresets'[n] = userPresets[n]
      ]_vars

\* the same for the names that are not names of built-in presets
OwnNamesAreSnapshots ==
    [][/\ (UserPresetLoaded' /\ probe'.name \notin DOMAIN builtInPresets) =>
                Snapshot' = userPresets'[probe'.name]
       /\ NoSave => userPresets' = userPresets
      ]_vars

\* 'mine' loaded after it was saved with the rotation at 45 degrees and the first colour
\* changed, a preset having been saved under another name later, from another state
OwnPresetRestored ==
    /\ UserPresetLoaded /\ probe.name = "mine"
    /\ shape.rotation = 45 * Scale /\ palette.colors[1] # DefaultPalette.colors[1]
    /\ "NeonCircles" \in DOMAIN userPresets
    /\ userPresets["NeonCircles"].palette.colors = DefaultPalette.colors
    /\ userPresets["NeonCircles"].shape.rotation = 0

\* the name of a built-in preset loaded after a user preset was saved under it: the
\* built-in one is applied
BuiltInShadowsUserPreset ==
    /\ UserPresetLoaded /\ probe.name = "NeonCircles"
    /\ userPresets["NeonCircles"].grid.cols = MaxCols
    /\ grid.cols = 2 /\ shape.blendMode = "add"


-----------------------------------------------------------------------------
(* The canvas size *)

\* canvas.width = cols*cellSize + 2*|offsetX| and canvas.height = rows*cellSize +
\* 2*|offsetY| for the current grid
CanvasFitsGrid ==
    /\ canvas.width = grid.cols * grid.cellSize + 2 * Abs(grid.offsetX)
    /\ canvas.height = grid.rows * grid.cellSize + 2 * Abs(grid.offsetY)

\* C28: after every completed UI action that can change grid geometry (a cols, rows,
\* cellSize or offset slider change, a preset selection, a JSON import, Randomize All,
\* Shift+R, Reset to Default), canvas.width = cols*cellSize + 2*|offsetX| and
\* canvas.height = rows*cellSize + 2*|offsetY| for the current grid.
C28_CanvasSizeFollowsGrid == CanvasFitsGrid

\* every action other than an import for which importState returned false leaves the
\* canvas fitting the grid, or did not touch the grid
CanvasFitsUnlessImportFailed ==
    [][ImportFails \/ grid' = grid \/ CanvasFitsGrid']_vars

\* Shift+R after a negative offset came in: the canvas has the size of the drawn grid
RandomizedCanvas ==
    /\ grid.cols = 2 /\ grid.rows = 1 /\ grid.cellSize = 89 * Scale
    /\ grid.offsetX = 0 - 10 * Scale /\ pattern.enabled
    /\ canvas.width = 2 * 89 * Scale + 20 * Scale /\ canvas.height = 89 * Scale

\* an import that failed part-way left the canvas with the size of the grid before it
CanvasStale ==
    /\ probe.fn = "importState" /\ ~probe.returned
    /\ grid.cols = 1 /\ grid.cellSize = 10 * Scale
    /\ canvas.width = MaxCols * 60 * Scale /\ ~CanvasFitsGrid


-----------------------------------------------------------------------------
(* Cell centres and the canvas rectangle *)

\* the cell centre lies inside the canvas rectangle
InsideCanvas(c) ==
    /\ 0 <= c.x /\ c.x <= canvas.width
    /\ 0 <= c.y /\ c.y <= canvas.height

\* the canvas has the size updateCanvasSize gives it for the current grid, and the
\* cells are those getGridCells emits for it
CanvasUpdated == canvas = updateCanvasSize(Store) /\ ~drawFailed /\ RegularGrid

\* C29: after updateCanvasSize, every cell centre emitted by getGridCells lies inside
\* the canvas rectangle (0 <= x <= canvas.width and 0 <= y <= canvas.height), for every
\* grid allowed by the UI (cols, rows in 1..50, offsets in -200..200) and every
\* symmetry mode.
C29_CellsInsideCanvas ==
    CanvasUpdated => \A k \in 1..Len(cells) : InsideCanvas(cells[k])

\* with offsets that are not negative the cells of the unmirrored and of the mirrored
\* grids lie inside the canvas
CellsInsideWithoutRadial ==
    (CanvasUpdated /\ grid.offsetX >= 0 /\ grid.offsetY >= 0 /\ grid.symmetry # "radial") =>
        \A k \in 1..Len(cells) : InsideCanvas(cells[k])

\* a negative Offset X moves the first column left of the canvas, which grows to the
\* right only
FirstColumnLeftOfCanvas ==
    /\ CanvasUpdated /\ grid.offsetX < 0 /\ grid.symmetry = "none"
    /\ Len(cells) > 0 /\ cells[1].x < 0

\* with no offset a radial copy of a cell of a grid wider than high lies above or below
\* the canvas
RadialCopyOutsideCanvas ==
    /\ CanvasUpdated /\ grid.offsetX = 0 /\ grid.offsetY = 0 /\ grid.symmetry = "radial"
    /\ grid.cols > grid.rows
    /\ \E k \in 1..Len(cells) : cells[k].y < 0 \/ cells[k].y > canvas.height


-----------------------------------------------------------------------------
(* The status line under concurrent exports and file loads *)

\* the status line reads 'Ready'
StatusReady == exportSettings.status = "Ready"

\* C30: exportSettings.status is 'Exporting...' from the start of exportComposition,
\* 'Done!' or 'Error!' when it finishes and 'Ready' 2000 ms later; under any
\* interleaving of exports started while another is running and of file loads, the
\* status is never 'Ready' while an export is still in progress, and it is eventually
\* 'Ready' once all exports have finished.
C30_StatusLine ==
    /\ [](ExportInFlight => ~StatusReady)
    /\ (~ExportInFlight) ~> StatusReady

\* once no export is in progress the status line does come back to 'Ready'
StatusEventuallyReady == (~ExportInFlight) ~> StatusReady

\* during an export the status line turns to 'Ready' only when a 2 s timer fires, that
\* of an export or file load that finished earlier
ReadyOnlyByEarlierTimer ==
    [][(ExportInFlight' /\ StatusReady' /\ ~StatusReady) => StatusTimeout]_vars

\* the 2 s timer of an export or file load that finished earlier has reset the status
\* line while a sequence export is between two frames
ReadyDuringExport ==
    /\ ExportInFlight /\ StatusReady
    /\ seqExport[1].frame + 1 < seqExport[1].totalFrames


=============================================================================
